---- MODULE Spec2Model ----
(***************************************************************************)
(* MCP broker (src/test-chat.js, lines 54-954): provider sessions over a   *)
(* WebSocket channel, the registry, the pending-call map with its deadline *)
(* timers, the tool-call router, the consumer CallTool / ListTools         *)
(* handlers, the chat proxy and the stats counters.                        *)
(*                                                                         *)
(* Strings that the code inspects character by character (client ids, tool *)
(* names, namespaced names) are sequences of one-character strings.  Texts *)
(* the code builds by interpolation are sequences of string pieces.        *)
(* crypto.randomBytes draws (call ids, rc_ ids) are modelled as draws that *)
(* never repeat: the n-th draw is derived from n.                          *)
(* Node runs every handler, and the promise continuations it triggers, to  *)
(* completion before the next event: one action is one such run.           *)
(***************************************************************************)
EXTENDS Integers, Sequences, FiniteSets, TLC

\* ---------------------------------------------------------------- bounds
NumSessions == 2        \* WebSocket connections the environment opens
MaxRegisters == 2       \* register frames handled
MaxRequests == 2        \* tool and chat requests accepted
MaxDropped == 1         \* tool_result frames that find no pending call
MaxErrorFrames == 1     \* error frames sent to one session
MaxNotifications == 502 \* notification frames accepted
MaxNotes == 2           \* notification frames accepted under NoteSpec
MaxReplaceRegisters == 3 \* register frames handled under ReplaceSpec
MaxServerFrames == 2    \* frames a server sends on one socket under SdkSpec
MaxChats == 1           \* chat() calls of the client
NumObservers == 2       \* subscriptions to the event stream

\* ------------------------------------------------------ program constants
TOOL_CALL_TIMEOUT_MS == 300000
ACTIVITY_LOG_MAX == 200
NOTIFICATION_MAX_PER_CLIENT == 100
NOTIFICATION_MAX_GLOBAL == 500
RECONNECT_DELAY_MS == 3000       \* src/sdk.js:25
MAX_RECONNECT_DELAY_MS == 30000  \* src/sdk.js:26

Sessions == 1..NumSessions

Observers == 1..NumObservers

\* ------------------------------------------------------------ input data
\* [a-zA-Z0-9_-] restricted to the characters the inputs below use
AllowedChars ==
  {"a", "b", "c", "e", "i", "k", "l", "n", "o", "p", "r", "s", "t", "x",
   "0", "1", "2", "3", "4", "5", "6", "7", "8", "9", "_", "-"}

KOKORO == <<"k", "o", "k", "o", "r", "o", "-", "t", "t", "s">>
SPEAK == <<"s", "p", "e", "a", "k">>
LIST_BROKER_CLIENTS ==
  <<"l", "i", "s", "t", "_", "b", "r", "o", "k", "e", "r", "_",
    "c", "l", "i", "e", "n", "t", "s">>

GET_NOTIFICATIONS ==
  <<"g", "e", "t", "_", "n", "o", "t", "i", "f", "i", "c", "a", "t", "i",
    "o", "n", "s">>
SPEAK_ACTION == <<"s", "p", "e", "a", "k", "_", "a", "c", "t", "i", "o", "n">>
ASK_AI == <<"a", "s", "k", "_", "a", "i">>

\* src/test-chat.js:526-584, the names in declaration order
BUILTIN_TOOLS ==
  <<LIST_BROKER_CLIENTS, GET_NOTIFICATIONS, SPEAK, SPEAK_ACTION, ASK_AI>>

\* register frames: msg.clientId and msg.tools (the descriptors' names).
\* <<>> stands for a missing, empty or non-string clientId; " " is a
\* character outside [a-zA-Z0-9_-].
RegisterInputs ==
  { [clientId |-> <<"a">>, tools |-> << <<"x">> >>],
    [clientId |-> <<"a", " ">>, tools |-> << <<"x">> >>],
    [clientId |-> <<>>, tools |-> <<>>],
    [clientId |-> KOKORO, tools |-> << SPEAK >>] }

\* a tools element that is null instead of a descriptor (a name is a
\* sequence of one-character strings, so no name equals it)
NullTool == <<"null">>

\* notification frames: msg.event || msg.data || {} ("{}": neither given)
NoteInputs == {"e1", "{}"}

\* frames the switch has no case for: text that is not JSON (json = FALSE)
\* and JSON values whose type property is no known message type
\* ("undefined": no such property, as in a number, a string or an array)
BadFrames ==
  { [json |-> FALSE, type |-> ""],
    [json |-> TRUE, type |-> "ping"],
    [json |-> TRUE, type |-> "undefined"] }

\* tool requests: the name and the arguments ("undefined": field absent)
CallInputs ==
  { [name |-> LIST_BROKER_CLIENTS, args |-> "undefined"],
    [name |-> SPEAK, args |-> "a1"],
    [name |-> <<"n", "o">>, args |-> "a1"],
    [name |-> <<"a", "_", "_", "x">>, args |-> "a1"],
    [name |-> <<"a", "_", "_", "x">>, args |-> "undefined"],
    [name |-> <<"a", "_", "_", "_", "x">>, args |-> "a1"],
    [name |-> <<"b", "_", "_", "x">>, args |-> "a1"] }

\* arguments of get_notifications: clientId (<<>>: absent) and limit
\* (hasLimit = FALSE: absent)
GetInputs ==
  { [clientId |-> <<"a">>, hasLimit |-> FALSE, limit |-> 0],
    [clientId |-> <<"a">>, hasLimit |-> TRUE, limit |-> 1],
    [clientId |-> <<"b">>, hasLimit |-> FALSE, limit |-> 0],
    [clientId |-> <<>>, hasLimit |-> FALSE, limit |-> 0],
    [clientId |-> <<>>, hasLimit |-> TRUE, limit |-> 1] }

\* arguments of get_notifications with limits 0, 1 and 2
LimitInputs ==
  { [clientId |-> c, hasLimit |-> TRUE, limit |-> n] :
      c \in {<<"a">>, <<"b">>, <<>>}, n \in 0..2 }
    \cup { [clientId |-> <<"a">>, hasLimit |-> FALSE, limit |-> 0],
           [clientId |-> <<>>, hasLimit |-> FALSE, limit |-> 0] }

\* tool_result frames: msg.content (has = FALSE: field absent) and
\* msg.isError
ResultInputs ==
  { [has |-> TRUE, content |-> <<"c1">>, isError |-> "false"],
    [has |-> TRUE, content |-> <<"c2">>, isError |-> "true"],
    [has |-> FALSE, content |-> <<>>, isError |-> "undefined"] }

\* -------------------------------------------------------- pure functions
\* Sanitize that removes the characters outside the class
Sanitize_Removes(raw) == SelectSeq(raw, LAMBDA c : c \in AllowedChars)

\* src/test-chat.js:238  msg.clientId.replace(/[^a-zA-Z0-9_-]/g, '_')
Sanitize(raw) ==
  [i \in 1..Len(raw) |-> IF raw[i] \in AllowedChars THEN raw[i] ELSE "_"]

\* crypto.randomBytes(4).toString('hex') of the n-th draw
Hex8(n) == <<"0", "0", "0", "0", "0", "0", "0", ToString(n % 10)>>

\* src/test-chat.js:237-239
AssignClientId(raw, n) ==
  IF Len(raw) > 0 THEN Sanitize(raw) ELSE <<"r", "c", "_">> \o Hex8(n)

\* src/test-chat.js:195-197
namespacedTool(clientId, toolName) == clientId \o <<"_", "_">> \o toolName

\* String.prototype.indexOf('__'), 1-based; 0 when there is no occurrence
IndexOfSep(n) ==
  LET hits == { i \in 1..(Len(n) - 1) : n[i] = "_" /\ n[i + 1] = "_" }
  IN  IF hits = {} THEN 0 ELSE CHOOSE i \in hits : \A j \in hits : i <= j

\* src/test-chat.js:199-206 ; ok = FALSE is the null result
parseNamespacedTool(n) ==
  LET sep == IndexOfSep(n)
  IN  IF sep = 0
      THEN [ok |-> FALSE, clientId |-> <<>>, toolName |-> <<>>]
      ELSE [ok |-> TRUE,
            clientId |-> SubSeq(n, 1, sep - 1),
            toolName |-> SubSeq(n, sep + 2, Len(n))]

\* ------------------------------------------------------------- variables
VARIABLES
  chan,          \* session -> "none" | "open" | "closing" | "closed"
  assigned,      \* session -> assignedClientId (<<>> is null)
  outbox,        \* session -> frames the broker sent on the channel
  registry,      \* Map clientId -> {ws, tools}, in insertion order
  pendingCalls,  \* keys of the Map callId -> {resolve, reject, timer}
  timers,        \* call ids whose deadline timer is armed
  calls,         \* call id n -> what callProviderTool dispatched as n
  reqs,          \* tool requests received, and their promises
  completions,   \* call id -> number of resolve/reject invocations
  stats,         \* stats counters
  activityLog,   \* activity entries
  rand,          \* number of rc_ ids drawn
  live,          \* history: session -> ids it registered and still holds
  tookOver,      \* history: session -> ids it took from another session
  chats,         \* chat requests received, and their upstream calls
  recording,     \* whether this specification keeps the activity log: no
                 \* handler reads the log, so a specification whose
                 \* properties do not mention it leaves it empty
  clientNotifications,  \* Map clientId -> per-client notification ring
  globalNotifications,  \* the global notification ring
  phase,         \* history: session -> "new" | "registered" |
                 \* "unregistered", the last register / unregister frame
  crashed,       \* an exception left a handler uncaught: the process ended
  dropped,       \* history: tool_result frames that found no pending call
  sseClients,    \* Set of the responses of the subscribed observers
  sseInbox,      \* observer -> frames written to its response
  client,        \* the fields of one BrokerClient of src/sdk.js
  sock,          \* session -> readyState of the WebSocket that connect()
                 \* made for it: "none" | "connecting" | "open" | "closing"
                 \* | "closed"
  promise,       \* session -> the promise of the connect() call that made
                 \* its socket: "none" | "pending" | "resolved" | "rejected"
  reconnects,    \* reconnect timers that are armed
  clientSent,    \* session -> frames the client sent on its socket
  clientRecv,    \* session -> frames given to the client's message handler
  taken,         \* session -> how many frames of clientSent the broker
                 \* has handled
  runs,          \* tool handler invocations of the client
  chatCalls,     \* chat() calls of the client and their promises
  threw          \* an exception left a handler of the client uncaught

\* the state of the broker process (src/test-chat.js)
brokerVars == <<chan, assigned, outbox, registry, pendingCalls, timers, calls,
                reqs, completions, stats, activityLog, rand, live, tookOver,
                chats, recording, clientNotifications, globalNotifications,
                phase, crashed, dropped, sseClients, sseInbox>>

\* the state of the client process (src/sdk.js) and of its connections
sdkVars == <<client, sock, promise, reconnects, clientSent, clientRecv,
             taken, runs, chatCalls, threw>>

vars == <<chan, assigned, outbox, registry, pendingCalls, timers, calls, reqs,
          completions, stats, activityLog, rand, live, tookOver, chats,
          recording, clientNotifications, globalNotifications, phase, crashed,
          dropped, sseClients, sseInbox, client, sock, promise, reconnects,
          clientSent, clientRecv, taken, runs, chatCalls, threw>>

\* ------------------------------------------------------ registry helpers
\* Map.prototype.has
RegHas(id) == \E i \in 1..Len(registry) : registry[i].clientId = id

RegIndex(id) == CHOOSE i \in 1..Len(registry) : registry[i].clientId = id

\* Map.prototype.get (only used where RegHas holds)
RegGet(id) == registry[RegIndex(id)]

\* RegDelete that leaves the entry in the map
RegDelete_Keeps(reg, id) == reg

\* Map.prototype.delete
RegDelete(reg, id) == SelectSeq(reg, LAMBDA e : e.clientId # id)

\* Map.prototype.set: a present key keeps its position, a new key goes last
\* epoch is history: the ordinal of the registration that made the entry
RegSet(reg, id, ws, tools, epoch) ==
  LET e == [clientId |-> id, ws |-> ws, tools |-> tools, epoch |-> epoch]
  IN  IF \E i \in 1..Len(reg) : reg[i].clientId = id
      THEN [i \in 1..Len(reg) |-> IF reg[i].clientId = id THEN e ELSE reg[i]]
      ELSE Append(reg, e)

\* src/test-chat.js:156-165 (the SSE fan-out is not part of this state).
\* time: the entry's creation time, as the ordinal of the entry
addActivity(log, type, clientId) ==
  LET time == IF log = <<>> THEN 1 ELSE log[Len(log)].time + 1
      l == Append(log, [time |-> time, type |-> type, clientId |-> clientId])
  IN  IF ~recording THEN log
      ELSE IF Len(l) > ACTIVITY_LOG_MAX THEN Tail(l) ELSE l

\* src/test-chat.js:157,163  the frame addActivity writes to the observers:
\* the entry it pushes onto log
ActivityFrame(log, type, clientId) ==
  [type |-> "activity",
   entry |-> [time |-> IF log = <<>> THEN 1 ELSE log[Len(log)].time + 1,
              type |-> type, clientId |-> clientId]]

\* src/test-chat.js:174-191  buildStatusSnapshot, as the frame of 170 and
\* 717 (uptime and startedAt are not part of this state)
StateFrame(reg, st) ==
  [type |-> "state",
   connectedClients |-> Len(reg),
   stats |-> st,
   clients |-> [i \in 1..Len(reg) |->
                  [clientId |-> reg[i].clientId, tools |-> reg[i].tools]]]

\* src/test-chat.js:152  the frame broadcastNotification writes
NotificationFrame(notification) ==
  [type |-> "notification", clientId |-> notification.clientId,
   event |-> notification.event, timestamp |-> notification.timestamp]

\* Broadcast that writes to one observer only
Broadcast_OnlyFirst(inbox, clients, frames) ==
  [o \in DOMAIN inbox |->
     IF o \in clients /\ \A k \in clients : o <= k
     THEN inbox[o] \o frames ELSE inbox[o]]

\* src/test-chat.js:151-153, 162-164, 169-171  for (const res of
\* sseClients) res.write(...), for each of frames in turn
Broadcast(inbox, clients, frames) ==
  [o \in DOMAIN inbox |->
     IF o \in clients THEN inbox[o] \o frames ELSE inbox[o]]

\* Map.prototype.has / get / set / delete of clientNotifications
NotesHas(cn, id) == id \in DOMAIN cn

NotesGet(cn, id) == IF NotesHas(cn, id) THEN cn[id] ELSE <<>>

NotesSet(cn, id, buf) ==
  [k \in DOMAIN cn \cup {id} |-> IF k = id THEN buf ELSE cn[k]]

\* src/test-chat.js:141-143
clearClientNotifications(cn, id) == [k \in DOMAIN cn \ {id} |-> cn[k]]

\* src/test-chat.js:131-135  the per-client buffer after storeNotification
StoreClient(cn, id, notification) ==
  LET buf == Append(NotesGet(cn, id), notification)
  IN  NotesSet(cn, id,
               IF Len(buf) > NOTIFICATION_MAX_PER_CLIENT THEN Tail(buf)
               ELSE buf)

\* StoreGlobal dropping the new element of a full buffer, not the oldest
StoreGlobal_DropsNewest(gn, notification) ==
  LET buf == Append(gn, notification)
  IN  IF Len(buf) > NOTIFICATION_MAX_GLOBAL
      THEN SubSeq(buf, 1, NOTIFICATION_MAX_GLOBAL) ELSE buf

\* src/test-chat.js:137-138  the global buffer after storeNotification
StoreGlobal(gn, notification) ==
  LET buf == Append(gn, notification)
  IN  IF Len(buf) > NOTIFICATION_MAX_GLOBAL THEN Tail(buf) ELSE buf

\* Array.prototype.slice(start): a negative start counts from the end
Slice(a, start) ==
  LET from == IF start < 0
              THEN (IF Len(a) + start > 0 THEN Len(a) + start ELSE 0)
              ELSE (IF start > Len(a) THEN Len(a) ELSE start)
  IN  SubSeq(a, from + 1, Len(a))

\* src/test-chat.js:145-148  getNotifications(clientId, limit = 50).
\* clientId <<>>: undefined or the empty string; hasLimit = FALSE: limit
\* undefined
getNotifications(cn, gn, clientId, hasLimit, limit) ==
  LET source == IF clientId # <<>> THEN NotesGet(cn, clientId) ELSE gn
  IN  Slice(source, 0 - (IF hasLimit THEN limit ELSE 50))

\* JSON.stringify of a list of notifications, as its pieces
RECURSIVE StringifyNotifications(_)
StringifyNotifications(list) ==
  IF list = <<>> THEN <<>>
  ELSE <<"{">> \o Head(list).clientId
       \o <<",", Head(list).event, ",", ToString(Head(list).timestamp), "}">>
       \o StringifyNotifications(Tail(list))

\* ws.send / ws.close on a channel: a frame sent on a channel that is not
\* open is discarded by the socket
Send(ch, box, s, frame) ==
  IF ch[s] = "open" THEN [box EXCEPT ![s] = Append(@, frame)] ELSE box

\* ------------------------------------------------------------------ init
\* the state after the module is loaded (src/test-chat.js:108-128)
BrokerBoot ==
  /\ chan = [s \in Sessions |-> "none"]
  /\ assigned = [s \in Sessions |-> <<>>]
  /\ outbox = [s \in Sessions |-> <<>>]
  /\ registry = <<>>
  /\ pendingCalls = {}
  /\ timers = {}
  /\ calls = <<>>
  /\ reqs = <<>>
  /\ completions = <<>>
  /\ stats = [toolCalls |-> 0, toolErrors |-> 0, chatRequests |-> 0,
              chatErrors |-> 0, totalConnections |-> 0, notifications |-> 0]
  /\ activityLog = <<>>
  /\ rand = 0
  /\ live = [s \in Sessions |-> {}]
  /\ tookOver = [s \in Sessions |-> {}]
  /\ chats = <<>>
  /\ clientNotifications = [k \in {} |-> <<>>]
  /\ globalNotifications = <<>>
  /\ phase = [s \in Sessions |-> "new"]
  /\ crashed = FALSE
  /\ dropped = 0
  /\ sseClients = {}
  /\ sseInbox = [o \in Observers |-> <<>>]

\* src/sdk.js:36-46  new BrokerClient('a', { autoReconnect }), and no
\* connection made yet
NewClient(autoReconnect) ==
  /\ client = [clientId |-> <<"a">>, autoReconnect |-> autoReconnect,
               tools |-> <<>>, pendingChats |-> {}, ws |-> 0,
               registered |-> FALSE, reconnectDelay |-> RECONNECT_DELAY_MS,
               closed |-> FALSE]
  /\ sock = [s \in Sessions |-> "none"]
  /\ promise = [s \in Sessions |-> "none"]
  /\ reconnects = 0
  /\ clientSent = [s \in Sessions |-> <<>>]
  /\ clientRecv = [s \in Sessions |-> <<>>]
  /\ taken = [s \in Sessions |-> 0]
  /\ runs = <<>>
  /\ chatCalls = <<>>
  /\ threw = FALSE

\* the broker after it is loaded, and a client that is constructed and idle
Boot == BrokerBoot /\ NewClient(TRUE)

Init == Boot /\ recording = FALSE

\* the same state, for the specifications that keep the activity log
RecInit == Boot /\ recording = TRUE

\* src/test-chat.js:222-223  wss.on('connection')
Connect(s) ==
  /\ ~crashed
  /\ chan[s] = "none"
  /\ chan' = [chan EXCEPT ![s] = "open"]
  /\ UNCHANGED <<assigned, outbox, registry, pendingCalls, timers, calls,
                 reqs, completions, stats, activityLog, rand, live, tookOver,
                 chats, recording, clientNotifications,
                 globalNotifications, phase, crashed, dropped,
                 sseClients, sseInbox>>

\* a frame can arrive until the close of the channel has been processed
CanReceive(s) == ~crashed /\ chan[s] \in {"open", "closing"}

\* RegisteredSend that sends nothing
RegisteredSend_Omitted(before, after, box, s, frame) == box

\* RegisteredSend issued before the old channel is closed
RegisteredSend_BeforeClose(before, after, box, s, frame) ==
  Send(before, box, s, frame)

\* src/test-chat.js:256  the registered frame, sent on the channels as they
\* are after line 244 has closed the old entry's channel (before: the
\* channels when the handler began)
RegisteredSend(before, after, box, s, frame) ==
  Send(after, box, s, frame)

\* src/test-chat.js:235-258  case 'register', for the first cap register
\* frames
RegisterUpTo(cap, s, raw, tools) ==
  /\ CanReceive(s)
  /\ stats.totalConnections < cap
  /\ LET clientId == AssignClientId(raw, rand)
         replace == RegHas(clientId)
         old == IF replace THEN RegGet(clientId).ws ELSE s
         chan1 == IF replace /\ chan[old] = "open"
                  THEN [chan EXCEPT ![old] = "closing"] ELSE chan
         reg1 == IF replace THEN RegDelete(registry, clientId) ELSE registry
         log1 == IF replace
                 THEN addActivity(activityLog, "disconnect", clientId)
                 ELSE activityLog
         \* 254: tools.map(t => t.name) throws on a null element, with
         \* 250-252 done and 254-256 not; nothing catches the exception
         throws == \E i \in 1..Len(tools) : tools[i] = NullTool
     IN  /\ chan' = chan1
         /\ assigned' = [assigned EXCEPT ![s] = clientId]
         /\ registry' = RegSet(reg1, clientId, s, tools,
                                stats.totalConnections + 1)
         /\ stats' = [stats EXCEPT !.totalConnections = @ + 1]
         /\ activityLog' = IF throws THEN log1
                           ELSE addActivity(log1, "connect", clientId)
         /\ outbox' = IF throws THEN outbox
                      ELSE RegisteredSend(chan, chan1, outbox, s,
                             [type |-> "registered", clientId |-> clientId,
                              epoch |-> stats.totalConnections + 1])
         /\ sseInbox' =
              Broadcast(sseInbox, sseClients,
                (IF replace
                 THEN <<ActivityFrame(activityLog, "disconnect", clientId)>>
                 ELSE <<>>)
                \o (IF throws THEN <<>>
                    ELSE <<ActivityFrame(log1, "connect", clientId),
                           StateFrame(registry', stats')>>))
         /\ crashed' = throws
         /\ phase' = [phase EXCEPT ![s] = "registered"]
         /\ rand' = IF Len(raw) > 0 THEN rand ELSE rand + 1
         /\ live' = [t \in Sessions |->
                       IF t = s THEN live[t] \cup {clientId}
                       ELSE live[t] \ {clientId}]
         /\ tookOver' = [t \in Sessions |->
                           IF t = s
                           THEN IF replace /\ old # s
                                THEN tookOver[t] \cup {clientId}
                                ELSE IF replace THEN tookOver[t]
                                ELSE tookOver[t] \ {clientId}
                           ELSE tookOver[t] \ {clientId}]
  /\ UNCHANGED <<pendingCalls, timers, calls, reqs, completions, chats,
                 recording, clientNotifications, globalNotifications,
                 dropped,
                 sseClients>>

\* src/test-chat.js:235-258  case 'register'
Register(s, raw, tools) == RegisterUpTo(MaxRegisters, s, raw, tools)

\* Unregister without broadcastState()
Unregister_NoState(s) ==
  /\ CanReceive(s)
  /\ IF Len(assigned[s]) > 0 /\ RegHas(assigned[s])
     THEN /\ registry' = RegDelete(registry, assigned[s])
          /\ activityLog' = addActivity(activityLog, "disconnect", assigned[s])
          /\ assigned' = [assigned EXCEPT ![s] = <<>>]
          /\ sseInbox' =
               Broadcast(sseInbox, sseClients,
                 <<ActivityFrame(activityLog, "disconnect", assigned[s])>>)
     ELSE UNCHANGED <<registry, activityLog, assigned, sseInbox>>
  /\ live' = [live EXCEPT ![s] = {}]
  /\ tookOver' = [tookOver EXCEPT ![s] = {}]
  /\ phase' = [phase EXCEPT ![s] = IF @ = "new" THEN "new"
                                    ELSE "unregistered"]
  /\ UNCHANGED <<chan, outbox, pendingCalls, timers, calls, reqs, completions,
                 stats, rand, chats, recording, clientNotifications,
                 globalNotifications, crashed, dropped,
                 sseClients>>

\* src/test-chat.js:260-269  case 'unregister'
Unregister(s) ==
  /\ CanReceive(s)
  /\ IF Len(assigned[s]) > 0 /\ RegHas(assigned[s])
     THEN /\ registry' = RegDelete(registry, assigned[s])
          /\ activityLog' = addActivity(activityLog, "disconnect", assigned[s])
          /\ assigned' = [assigned EXCEPT ![s] = <<>>]
          /\ sseInbox' =
               Broadcast(sseInbox, sseClients,
                 <<ActivityFrame(activityLog, "disconnect", assigned[s]),
                   StateFrame(registry', stats)>>)
     ELSE UNCHANGED <<registry, activityLog, assigned, sseInbox>>
  /\ live' = [live EXCEPT ![s] = {}]
  /\ tookOver' = [tookOver EXCEPT ![s] = {}]
  /\ phase' = [phase EXCEPT ![s] = IF @ = "new" THEN "new"
                                    ELSE "unregistered"]
  /\ UNCHANGED <<chan, outbox, pendingCalls, timers, calls, reqs, completions,
                 stats, rand, chats, recording, clientNotifications,
                 globalNotifications, crashed, dropped,
                 sseClients>>

\* the calls that were dispatched to the channel of session s
CallsTo(s) == { c \in 1..Len(calls) : calls[c].ws = s }

\* Close that also cancels the timers of the calls sent to the channel
Close_CancelsTimers(s) ==
  /\ CanReceive(s)
  /\ chan' = [chan EXCEPT ![s] = "closed"]
  /\ IF Len(assigned[s]) > 0 /\ RegHas(assigned[s])
     THEN /\ registry' = RegDelete(registry, assigned[s])
          /\ clientNotifications' =
               clearClientNotifications(clientNotifications, assigned[s])
          /\ activityLog' = addActivity(activityLog, "disconnect", assigned[s])
          /\ sseInbox' =
               Broadcast(sseInbox, sseClients,
                 <<ActivityFrame(activityLog, "disconnect", assigned[s]),
                   StateFrame(registry', stats)>>)
     ELSE UNCHANGED <<registry, clientNotifications, activityLog, sseInbox>>
  /\ timers' = timers \ CallsTo(s)
  /\ live' = [live EXCEPT ![s] = {}]
  /\ tookOver' = [tookOver EXCEPT ![s] = {}]
  /\ UNCHANGED <<assigned, outbox, pendingCalls, calls, reqs,
                 completions, stats, rand, chats, recording,
                 globalNotifications, phase, crashed, dropped,
                 sseClients>>

\* Close that also drops the pending calls sent to the channel
Close_DropsPending(s) ==
  /\ CanReceive(s)
  /\ chan' = [chan EXCEPT ![s] = "closed"]
  /\ IF Len(assigned[s]) > 0 /\ RegHas(assigned[s])
     THEN /\ registry' = RegDelete(registry, assigned[s])
          /\ clientNotifications' =
               clearClientNotifications(clientNotifications, assigned[s])
          /\ activityLog' = addActivity(activityLog, "disconnect", assigned[s])
          /\ sseInbox' =
               Broadcast(sseInbox, sseClients,
                 <<ActivityFrame(activityLog, "disconnect", assigned[s]),
                   StateFrame(registry', stats)>>)
     ELSE UNCHANGED <<registry, clientNotifications, activityLog, sseInbox>>
  /\ timers' = timers \ CallsTo(s)
  /\ pendingCalls' = pendingCalls \ CallsTo(s)
  /\ live' = [live EXCEPT ![s] = {}]
  /\ tookOver' = [tookOver EXCEPT ![s] = {}]
  /\ UNCHANGED <<assigned, outbox, calls, reqs,
                 completions, stats, rand, chats, recording,
                 globalNotifications, phase, crashed, dropped,
                 sseClients>>

\* src/test-chat.js:346-354  ws.on('close')
Close(s) ==
  /\ CanReceive(s)
  /\ chan' = [chan EXCEPT ![s] = "closed"]
  /\ IF Len(assigned[s]) > 0 /\ RegHas(assigned[s])
     THEN /\ registry' = RegDelete(registry, assigned[s])
          /\ clientNotifications' =
               clearClientNotifications(clientNotifications, assigned[s])
          /\ activityLog' = addActivity(activityLog, "disconnect", assigned[s])
          /\ sseInbox' =
               Broadcast(sseInbox, sseClients,
                 <<ActivityFrame(activityLog, "disconnect", assigned[s]),
                   StateFrame(registry', stats)>>)
     ELSE UNCHANGED <<registry, clientNotifications, activityLog, sseInbox>>
  /\ live' = [live EXCEPT ![s] = {}]
  /\ tookOver' = [tookOver EXCEPT ![s] = {}]
  /\ UNCHANGED <<assigned, outbox, pendingCalls, timers, calls, reqs,
                 completions, stats, rand, chats, recording,
                 globalNotifications, phase, crashed, dropped,
                 sseClients>>

\* ------------------------------------------------------------ tool calls
\* src/test-chat.js:502  the rejection message of a missing registry entry
NotConnectedMsg(clientId) ==
  <<"Broker client \"">> \o clientId \o <<"\" not connected">>

\* src/test-chat.js:509  the rejection message of the deadline timer
TimeoutMsg(toolName, clientId) ==
  <<"Tool call \"">> \o toolName \o <<"\" on \"">> \o clientId
    \o <<"\" timed out after ", ToString(TOOL_CALL_TIMEOUT_MS), "ms">>

\* src/test-chat.js:419-425  the text of list_broker_clients
ListClientsText(reg) ==
  <<"clients", ToString(Len(reg))>>

\* src/test-chat.js:417-496  routeToolCall up to its first suspension:
\* which provider call, if any, the name leads to.  wrap = "speak" is the
\* try/catch of the speak and speak_action built-ins around
\* callProviderTool, wrap = "ask" the one of ask_ai (478-481).
RouteTarget(name) ==
  IF name = LIST_BROKER_CLIENTS
  THEN [kind |-> "builtin", clientId |-> <<>>, toolName |-> <<>>,
        wrap |-> "none"]
  ELSE IF name = GET_NOTIFICATIONS
  THEN [kind |-> "notifications", clientId |-> <<>>, toolName |-> <<>>,
        wrap |-> "none"]
  ELSE IF name = SPEAK
  THEN [kind |-> "provider", clientId |-> KOKORO, toolName |-> SPEAK,
        wrap |-> "speak"]
  ELSE IF name = SPEAK_ACTION
  THEN [kind |-> "speak_action", clientId |-> KOKORO, toolName |-> SPEAK,
        wrap |-> "speak"]
  ELSE IF name = ASK_AI
  THEN [kind |-> "ask_ai", clientId |-> KOKORO, toolName |-> SPEAK,
        wrap |-> "ask"]
  ELSE LET parsed == parseNamespacedTool(name)
       IN  IF ~parsed.ok
           THEN [kind |-> "unknown", clientId |-> <<>>, toolName |-> <<>>,
                 wrap |-> "none"]
           ELSE [kind |-> "provider", clientId |-> parsed.clientId,
                 toolName |-> parsed.toolName, wrap |-> "none"]

\* Outcome with the result's isError flag lost on the way back
Outcome_DropsIsError(wrap, rejected, content, isError) ==
  IF ~rejected THEN [thrown |-> FALSE, content |-> content, isError |-> FALSE]
  ELSE IF wrap = "speak"
  THEN [thrown |-> FALSE, content |-> <<"speak failed: ">> \o content,
        isError |-> TRUE]
  ELSE [thrown |-> TRUE, content |-> <<"Error: ">> \o content,
        isError |-> TRUE]

\* what the awaiting handler makes of a settled routeToolCall:
\* src/test-chat.js:614-624 (consumer) and 328-335 (call_tool frame), with
\* the speak built-in's catch of 437-439 in front.
\* thrown: routeToolCall threw msg; otherwise it returned (content, isError).
Outcome(wrap, rejected, content, isError) ==
  IF ~rejected THEN [thrown |-> FALSE, content |-> content, isError |-> isError]
  ELSE IF wrap = "speak"
  THEN [thrown |-> FALSE, content |-> <<"speak failed: ">> \o content,
        isError |-> TRUE]
  ELSE [thrown |-> TRUE, content |-> <<"Error: ">> \o content,
        isError |-> TRUE]

\* StatsAfter counting an error both in the catch and on the result
StatsAfter_CountsTwice(st, out) ==
  [st EXCEPT !.toolErrors = @ + (IF out.thrown THEN 1 ELSE 0)
                              + (IF out.isError THEN 1 ELSE 0)]

\* src/test-chat.js:615-624 / 329-335: counters and activity after the await
StatsAfter(st, out) ==
  IF out.thrown \/ out.isError THEN [st EXCEPT !.toolErrors = @ + 1] ELSE st

LogAfter(log, out, clientId) ==
  addActivity(log, IF out.thrown THEN "tool_error" ELSE "tool_result",
              clientId)

\* ReplyFrame that names no call id
ReplyFrame_NoCallId(req, out) ==
  [type |-> "call_tool_result", callId |-> <<>>,
   content |-> out.content, isError |-> out.isError]

\* src/test-chat.js:331,335  the call_tool_result frame of a call_tool frame
ReplyFrame(req, out) ==
  [type |-> "call_tool_result", callId |-> req.wsCallId,
   content |-> out.content, isError |-> out.isError]

\* the continuation of request r once its promise is settled.
\* by and got are history: what settled it ("sync": routeToolCall returned
\* or threw without suspending) and the tool_result frame, if any
Finish(r, rs, st, log, box, rejected, content, isError, by, got) ==
  LET req == rs[r]
      out == Outcome(req.wrap, rejected, content, isError)
  IN  /\ reqs' = [rs EXCEPT ![r] = [@ EXCEPT !.state = "done",
                                            !.content = out.content,
                                            !.isError = out.isError,
                                            !.thrown = out.thrown,
                                            !.settled = @ + 1,
                                            !.by = by,
                                            !.got = got]]
      /\ stats' = StatsAfter(st, out)
      /\ activityLog' = LogAfter(log, out, req.from)
      /\ sseInbox' =
           Broadcast(box, sseClients,
             <<ActivityFrame(log, IF out.thrown THEN "tool_error"
                                  ELSE "tool_result", req.from)>>)
      /\ outbox' = IF req.origin = "ws"
                   THEN Send(chan, outbox, req.ws, ReplyFrame(req, out))
                   ELSE outbox

NoFrame == [has |-> FALSE, content |-> <<>>, isError |-> "undefined"]

NewReq(origin, s, wsCallId, name, args, t) ==
  [origin |-> origin, ws |-> s, wsCallId |-> wsCallId,
   from |-> IF origin = "ws" THEN assigned[s] ELSE <<>>,
   name |-> name, args |-> args, wrap |-> t.wrap,
   state |-> "awaiting", callId |-> 0, content |-> <<>>, isError |-> FALSE,
   thrown |-> FALSE, settled |-> 0, by |-> "none", got |-> NoFrame,
   text |-> ""]

\* src/test-chat.js:505-519  callProviderTool once the entry is found: the
\* timer, the pending call and the tool_call frame
Dispatch(r, rs, st, log, box, clientId, toolName, sent) ==
  LET callId == Len(calls) + 1
      entry == RegGet(clientId)
  IN  /\ timers' = timers \cup {callId}
      /\ pendingCalls' = pendingCalls \cup {callId}
      /\ calls' = Append(calls,
                    [clientId |-> clientId, toolName |-> toolName,
                     arguments |-> sent, ws |-> entry.ws, req |-> r,
                     delivered |-> chan[entry.ws] = "open",
                     epoch |-> entry.epoch])
      /\ completions' = Append(completions, 0)
      /\ outbox' = Send(chan, outbox, entry.ws,
                        [type |-> "tool_call", callId |-> callId,
                         tool |-> toolName, arguments |-> sent])
      /\ reqs' = [rs EXCEPT ![r].callId = callId, ![r].state = "awaiting"]
      /\ stats' = st
      /\ activityLog' = log
      /\ sseInbox' = box

\* A tool request from its first statement to its first suspension:
\* src/test-chat.js:608-614 (consumer CallTool) or 324-328 (call_tool
\* frame), then routeToolCall 417-496 and callProviderTool 498-521.
\* args of get_notifications: [clientId, hasLimit, limit]; of speak_action:
\* [action] ("": missing, empty or no string); of ask_ai: [prompt, speak]
StartRequest(origin, s, wsCallId, name, args) ==
  LET t == RouteTarget(name)
      r == Len(reqs) + 1
      rs == Append(reqs, NewReq(origin, s, wsCallId, name, args, t))
      st == [stats EXCEPT !.toolCalls = @ + 1]
      log == addActivity(activityLog, "tool_call", rs[r].from)
      box == Broadcast(sseInbox, sseClients,
               <<ActivityFrame(activityLog, "tool_call", rs[r].from)>>)
  IN  IF t.kind = "builtin"
      THEN /\ Finish(r, rs, st, log, box, FALSE, ListClientsText(registry), FALSE,
                  "sync", NoFrame)
           /\ UNCHANGED <<pendingCalls, timers, calls, completions>>
      ELSE IF t.kind = "notifications"
      THEN /\ Finish(r, rs, st, log, box, FALSE,
                  StringifyNotifications(
                    getNotifications(clientNotifications, globalNotifications,
                                     args.clientId, args.hasLimit, args.limit)),
                  FALSE, "sync", NoFrame)
           /\ UNCHANGED <<pendingCalls, timers, calls, completions>>
      ELSE IF t.kind = "speak_action" /\ args.action = ""
      THEN /\ Finish(r, rs, st, log, box, FALSE,
                  <<"action string is required">>, TRUE, "sync", NoFrame)
           /\ UNCHANGED <<pendingCalls, timers, calls, completions>>
      ELSE IF t.kind = "ask_ai" /\ args.prompt = ""
      THEN /\ Finish(r, rs, st, log, box, FALSE,
                  <<"prompt string is required">>, TRUE, "sync", NoFrame)
           /\ UNCHANGED <<pendingCalls, timers, calls, completions>>
      ELSE IF t.kind \in {"speak_action", "ask_ai"}
      THEN \* 450, 472: await ollamaGenerate
           /\ reqs' = [rs EXCEPT ![r].state = "upstream"]
           /\ stats' = st
           /\ activityLog' = log
           /\ sseInbox' = box
           /\ UNCHANGED <<outbox, pendingCalls, timers, calls, completions>>
      ELSE IF t.kind = "unknown"
      THEN /\ Finish(r, rs, st, log, box, FALSE, <<"Unknown tool: ">> \o name,
                  TRUE, "sync", NoFrame)
           /\ UNCHANGED <<pendingCalls, timers, calls, completions>>
      ELSE IF ~RegHas(t.clientId)
      THEN /\ Finish(r, rs, st, log, box, TRUE, NotConnectedMsg(t.clientId),
                  TRUE, "sync", NoFrame)
           /\ UNCHANGED <<pendingCalls, timers, calls, completions>>
      ELSE Dispatch(r, rs, st, log, box, t.clientId, t.toolName,
                    IF args = "undefined" THEN "{}" ELSE args)

\* src/test-chat.js:608-626  CallToolRequestSchema handler
ConsumerCallTool(name, args) ==
  /\ ~crashed
  /\ Len(reqs) + Len(chats) < MaxRequests
  /\ StartRequest("mcp", 0, <<>>, name, args)
  /\ UNCHANGED <<chan, assigned, registry, rand, live, tookOver, chats,
                 recording, clientNotifications,
                 globalNotifications, phase, crashed, dropped,
                 sseClients>>

\* src/test-chat.js:315-339  case 'call_tool'
\* given: msg.callId (<<>>: absent), hasTool: msg.tool present
CallToolFrame(s, given, hasTool, name, args) ==
  /\ CanReceive(s)
  /\ Len(reqs) + Len(chats) < MaxRequests
  /\ LET callId == IF given # <<>> THEN given
                   ELSE <<"rnd", ToString(Len(reqs))>>
     IN  IF ~hasTool
         THEN /\ outbox' = Send(chan, outbox, s,
                                [type |-> "call_tool_result",
                                 callId |-> callId,
                                 content |-> <<"tool name is required">>,
                                 isError |-> TRUE])
              /\ reqs' = Append(reqs,
                    [NewReq("ws", s, callId, <<>>, args, RouteTarget(<<>>))
                       EXCEPT !.state = "refused"])
              /\ UNCHANGED <<stats, activityLog, pendingCalls, timers,
                             calls, completions, sseInbox>>
         ELSE StartRequest("ws", s, callId, name, args)
  /\ UNCHANGED <<chan, assigned, registry, rand, live, tookOver, chats,
                 recording, clientNotifications,
                 globalNotifications, phase, crashed, dropped,
                 sseClients>>

\* settle the promise of call c: resolve or reject of 499; a promise that
\* is already settled ignores it
Settle(c, rejected, content, isError, by, got) ==
  LET r == calls[c].req
  IN  /\ completions' = [completions EXCEPT ![c] = @ + 1]
      /\ IF reqs[r].state = "awaiting" /\ reqs[r].wrap = "ask"
         THEN \* 477-483: the outcome of speak is dropped, the text returned
              Finish(r, reqs, stats, activityLog, sseInbox, FALSE,
                     <<reqs[r].text>>, FALSE, by, got)
         ELSE IF reqs[r].state = "awaiting"
         THEN Finish(r, reqs, stats, activityLog, sseInbox, rejected, content,
                     isError, by, got)
         ELSE UNCHANGED <<reqs, stats, activityLog, outbox, sseInbox>>

\* ToolResult without clearTimeout(pending.timer)
ToolResult_KeepsTimer(s, callId, m) ==
  /\ CanReceive(s)
  /\ IF callId \in pendingCalls
     THEN /\ pendingCalls' = pendingCalls \ {callId}
          /\ Settle(callId, FALSE,
                    IF m.has THEN m.content ELSE <<"No content returned">>,
                    m.isError = "true", "result", m)
          /\ UNCHANGED <<timers, dropped>>
     ELSE /\ dropped < MaxDropped
          /\ dropped' = dropped + 1
          /\ UNCHANGED <<timers, pendingCalls, completions, reqs, stats,
                         activityLog, outbox, sseInbox>>
  /\ UNCHANGED <<chan, assigned, registry, calls, rand, live, tookOver, chats,
                 recording, clientNotifications, globalNotifications, phase,
                 crashed,
                 sseClients>>

\* ToolResult answering a call id it does not know with an error frame
ToolResult_AnswersUnknown(s, callId, m) ==
  /\ CanReceive(s)
  /\ IF callId \in pendingCalls
     THEN /\ timers' = timers \ {callId}
          /\ pendingCalls' = pendingCalls \ {callId}
          /\ Settle(callId, FALSE,
                    IF m.has THEN m.content ELSE <<"No content returned">>,
                    m.isError = "true", "result", m)
          /\ UNCHANGED dropped
     ELSE /\ dropped < MaxDropped
          /\ dropped' = dropped + 1
          /\ outbox' = Send(chan, outbox, s,
                            [type |-> "error", message |-> <<"Unknown callId">>])
          /\ UNCHANGED <<timers, pendingCalls, completions, reqs, stats,
                         activityLog, sseInbox>>
  /\ UNCHANGED <<chan, assigned, registry, calls, rand, live, tookOver, chats,
                 recording, clientNotifications, globalNotifications, phase,
                 crashed,
                 sseClients>>

\* src/test-chat.js:271-282  case 'tool_result'
ToolResult(s, callId, m) ==
  /\ CanReceive(s)
  /\ IF callId \in pendingCalls
     THEN /\ timers' = timers \ {callId}
          /\ pendingCalls' = pendingCalls \ {callId}
          /\ Settle(callId, FALSE,
                    IF m.has THEN m.content ELSE <<"No content returned">>,
                    m.isError = "true", "result", m)
          /\ UNCHANGED dropped
     ELSE /\ dropped < MaxDropped
          /\ dropped' = dropped + 1
          /\ UNCHANGED <<timers, pendingCalls, completions, reqs, stats,
                         activityLog, outbox, sseInbox>>
  /\ UNCHANGED <<chan, assigned, registry, calls, rand, live, tookOver, chats,
                 recording, clientNotifications, globalNotifications, phase,
                 crashed,
                 sseClients>>

\* TimerFire without pendingCalls.delete(callId)
TimerFire_KeepsEntry(c) ==
  /\ ~crashed
  /\ c \in timers
  /\ timers' = timers \ {c}
  /\ UNCHANGED pendingCalls
  /\ Settle(c, TRUE, TimeoutMsg(calls[c].toolName, calls[c].clientId), TRUE,
            "timer", NoFrame)
  /\ UNCHANGED <<chan, assigned, registry, calls, rand, live, tookOver, chats,
                 recording, clientNotifications,
                 globalNotifications, phase, crashed, dropped,
                 sseClients>>

\* src/test-chat.js:507-510  the deadline timer of call c fires
TimerFire(c) ==
  /\ ~crashed
  /\ c \in timers
  /\ timers' = timers \ {c}
  /\ pendingCalls' = pendingCalls \ {c}
  /\ Settle(c, TRUE, TimeoutMsg(calls[c].toolName, calls[c].clientId), TRUE,
            "timer", NoFrame)
  /\ UNCHANGED <<chan, assigned, registry, calls, rand, live, tookOver, chats,
                 recording, clientNotifications,
                 globalNotifications, phase, crashed, dropped,
                 sseClients>>

\* texts the upstream model returns: data.response || '' and its length
UpstreamTexts ==
  { [text |-> "", len |-> 0], [text |-> "I call", len |-> 6],
    [text |-> "long", len |-> 100] }

\* src/test-chat.js:400-409  ollamaGenerate of request r settles (ok: it
\* returned text; otherwise it threw), and routeToolCall runs on to its
\* next suspension: 454-462 (speak_action) or 476-487 (ask_ai)
OllamaDone(r, ok, text) ==
  /\ ~crashed
  /\ r \in 1..Len(reqs)
  /\ reqs[r].state = "upstream"
  /\ LET q == reqs[r]
     IN  IF RouteTarget(q.name).kind = "speak_action"
         THEN LET spokenText == IF ok /\ text.len > 0 /\ text.len < 100
                                THEN text.text ELSE q.args.action
              IN  IF ~RegHas(KOKORO)
                  THEN /\ Finish(r, reqs, stats, activityLog, sseInbox, TRUE,
                              NotConnectedMsg(KOKORO), TRUE, "upstream",
                              NoFrame)
                       /\ UNCHANGED <<pendingCalls, timers, calls,
                                      completions>>
                  ELSE Dispatch(r, reqs, stats, activityLog, sseInbox,
                                KOKORO, SPEAK, <<"text", spokenText>>)
         ELSE IF ~ok
         THEN /\ Finish(r, reqs, stats, activityLog, sseInbox, FALSE,
                     <<"AI error: ", "Ollama returned 500">>, TRUE,
                     "upstream", NoFrame)
              /\ UNCHANGED <<pendingCalls, timers, calls, completions>>
         ELSE IF q.args.speak /\ text.len > 0 /\ RegHas(KOKORO)
         THEN Dispatch(r, [reqs EXCEPT ![r].text = text.text], stats,
                       activityLog, sseInbox, KOKORO, SPEAK,
                       <<"text", text.text>>)
         ELSE /\ Finish(r, reqs, stats, activityLog, sseInbox, FALSE,
                     IF text.len = 0 THEN <<"(no response)">>
                     ELSE <<text.text>>, FALSE, "upstream", NoFrame)
              /\ UNCHANGED <<pendingCalls, timers, calls, completions>>
  /\ UNCHANGED <<chan, assigned, registry, rand, live, tookOver, chats,
                 recording, clientNotifications, globalNotifications, phase,
                 crashed, dropped, sseClients>>

\* ----------------------------------------------------------- chat proxy
\* chat_request frames: msg.requestId ("": absent) and msg.payload
\* ("undefined": absent; "bad": a payload whose messages is no array, so
\* that messages.find of 366 throws)
ChatInputs ==
  { [requestId |-> "q1", payload |-> "p1"],
    [requestId |-> "q2", payload |-> "p1"],
    [requestId |-> "q1", payload |-> "bad"],
    [requestId |-> "", payload |-> "p1"],
    [requestId |-> "q1", payload |-> "undefined"] }

\* src/test-chat.js:284-294  case 'chat_request', and proxyChat 363-373 up
\* to the await of the upstream call, or 383-391 when 365-368 throw
ChatRequestFrame(s, requestId, payload) ==
  /\ CanReceive(s)
  /\ Len(reqs) + Len(chats) < MaxRequests
  /\ IF requestId = "" \/ payload = "undefined"
     THEN /\ outbox' = Send(chan, outbox, s,
                 [type |-> "error",
                  message |-> <<"chat_request requires requestId and payload">>])
          /\ chats' = Append(chats, [origin |-> "ws", ws |-> s,
                                     requestId |-> requestId,
                                     state |-> "refused"])
          /\ UNCHANGED <<stats, activityLog, sseInbox>>
     ELSE IF payload = "bad"
     THEN LET log == addActivity(activityLog, "chat", assigned[s])
          IN  /\ stats' = [stats EXCEPT !.chatRequests = @ + 1,
                                        !.chatErrors = @ + 1]
              /\ activityLog' = addActivity(log, "chat_error", <<>>)
              /\ sseInbox' =
                   Broadcast(sseInbox, sseClients,
                     <<ActivityFrame(activityLog, "chat", assigned[s]),
                       ActivityFrame(log, "chat_error", <<>>)>>)
              /\ chats' = Append(chats, [origin |-> "ws", ws |-> s,
                                         requestId |-> requestId,
                                         state |-> "failed"])
              /\ outbox' = Send(chan, outbox, s,
                                [type |-> "chat_error",
                                 requestId |-> requestId])
     ELSE /\ stats' = [stats EXCEPT !.chatRequests = @ + 1]
          /\ activityLog' = addActivity(activityLog, "chat", assigned[s])
          /\ sseInbox' = Broadcast(sseInbox, sseClients,
                            <<ActivityFrame(activityLog, "chat", assigned[s])>>)
          /\ chats' = Append(chats, [origin |-> "ws", ws |-> s,
                                     requestId |-> requestId,
                                     state |-> "upstream"])
          /\ UNCHANGED outbox
  /\ UNCHANGED <<chan, assigned, registry, pendingCalls, timers, calls, reqs,
                 completions, rand, live, tookOver, recording, clientNotifications,
                 globalNotifications, phase, crashed, dropped,
                 sseClients>>

\* src/test-chat.js:882-889  app.post('/api/chat') up to the await of the
\* upstream call (a request without a message string is answered 400 and
\* changes nothing)
ApiChat ==
  /\ ~crashed
  /\ Len(reqs) + Len(chats) < MaxRequests
  /\ chats' = Append(chats, [origin |-> "api", ws |-> 0, requestId |-> "",
                             state |-> "upstream"])
  /\ UNCHANGED <<chan, assigned, outbox, registry, pendingCalls, timers,
                 calls, reqs, completions, stats, activityLog, rand, live,
                 tookOver, recording, clientNotifications,
                 globalNotifications, phase, crashed, dropped,
                 sseClients, sseInbox>>

\* UpstreamDone whose failure is counted and logged but not answered
UpstreamDone_Silent(i, ok) ==
  /\ ~crashed
  /\ i \in 1..Len(chats)
  /\ chats[i].state = "upstream"
  /\ chats' = [chats EXCEPT ![i].state = IF ok THEN "ok" ELSE "failed"]
  /\ IF ok
     THEN /\ outbox' = Send(chan, outbox, chats[i].ws,
                            [type |-> "chat_response",
                             requestId |-> chats[i].requestId])
          /\ UNCHANGED <<stats, activityLog, sseInbox>>
     ELSE /\ stats' = [stats EXCEPT !.chatErrors = @ + 1]
          /\ activityLog' = addActivity(activityLog, "chat_error", <<>>)
          /\ sseInbox' =
               Broadcast(sseInbox, sseClients,
                 <<ActivityFrame(activityLog, "chat_error", <<>>)>>)
          /\ UNCHANGED outbox
  /\ UNCHANGED <<chan, assigned, registry, pendingCalls, timers, calls, reqs,
                 completions, rand, live, tookOver, recording,
                 clientNotifications, globalNotifications, phase, crashed,
                 dropped, sseClients>>

\* the upstream call of chat i returns (ok) or fails:
\* src/test-chat.js:375-391 (proxyChat) and 890-897 (/api/chat)
UpstreamDone(i, ok) ==
  /\ ~crashed
  /\ i \in 1..Len(chats)
  /\ chats[i].state = "upstream"
  /\ chats' = [chats EXCEPT ![i].state = IF ok THEN "ok" ELSE "failed"]
  /\ IF chats[i].origin = "ws"
     THEN IF ok
          THEN /\ outbox' = Send(chan, outbox, chats[i].ws,
                                 [type |-> "chat_response",
                                  requestId |-> chats[i].requestId])
               /\ UNCHANGED <<stats, activityLog, sseInbox>>
          ELSE /\ stats' = [stats EXCEPT !.chatErrors = @ + 1]
               /\ activityLog' = addActivity(activityLog, "chat_error", <<>>)
               /\ sseInbox' =
                    Broadcast(sseInbox, sseClients,
                      <<ActivityFrame(activityLog, "chat_error", <<>>)>>)
               /\ outbox' = Send(chan, outbox, chats[i].ws,
                                 [type |-> "chat_error",
                                  requestId |-> chats[i].requestId])
     ELSE /\ IF ok
             THEN /\ stats' = [stats EXCEPT !.chatRequests = @ + 1]
                  /\ activityLog' = addActivity(activityLog, "chat",
                                                <<"dashboard">>)
                  /\ sseInbox' =
                       Broadcast(sseInbox, sseClients,
                         <<ActivityFrame(activityLog, "chat",
                                         <<"dashboard">>)>>)
             ELSE /\ stats' = [stats EXCEPT !.chatErrors = @ + 1]
                  /\ activityLog' = addActivity(activityLog, "chat_error",
                                                <<"dashboard">>)
                  /\ sseInbox' =
                       Broadcast(sseInbox, sseClients,
                         <<ActivityFrame(activityLog, "chat_error",
                                         <<"dashboard">>)>>)
          /\ UNCHANGED outbox
  /\ UNCHANGED <<chan, assigned, registry, pendingCalls, timers, calls, reqs,
                 completions, rand, live, tookOver, recording, clientNotifications,
                 globalNotifications, phase, crashed, dropped,
                 sseClients>>

\* ------------------------------------------- notifications, other frames
\* the error frames the broker has sent on the channel of s
ErrorFrames(s) ==
  Cardinality({ i \in 1..Len(outbox[s]) : outbox[s][i].type = "error" })

\* src/test-chat.js:296-313  case 'notification'.
\* timestamp: the creation time, as the ordinal of the notification
Notification(s, event) ==
  /\ CanReceive(s)
  /\ IF Len(assigned[s]) = 0
     THEN /\ ErrorFrames(s) < MaxErrorFrames
          /\ outbox' = Send(chan, outbox, s,
                 [type |-> "error",
                  message |-> <<"Must register before sending notifications">>])
          /\ UNCHANGED <<stats, clientNotifications, globalNotifications,
                         activityLog, sseInbox>>
     ELSE LET notification == [clientId |-> assigned[s], event |-> event,
                               timestamp |-> stats.notifications + 1]
          IN  /\ stats.notifications < MaxNotifications
              /\ stats' = [stats EXCEPT !.notifications = @ + 1]
              /\ clientNotifications' =
                   StoreClient(clientNotifications, assigned[s], notification)
              /\ globalNotifications' =
                   StoreGlobal(globalNotifications, notification)
              /\ activityLog' =
                   addActivity(activityLog, "notification", assigned[s])
              /\ sseInbox' =
                   Broadcast(sseInbox, sseClients,
                     <<ActivityFrame(activityLog, "notification", assigned[s]),
                       NotificationFrame(notification)>>)
              /\ outbox' = Send(chan, outbox, s,
                                [type |-> "notification_ack",
                                 timestamp |-> notification.timestamp])
  /\ UNCHANGED <<chan, assigned, registry, pendingCalls, timers, calls, reqs,
                 completions, rand, live, tookOver, chats, recording, phase,
                 crashed, dropped,
                 sseClients>>

\* BadFrame that also closes the channel of the sender
BadFrame_Closes(s, m) ==
  /\ CanReceive(s)
  /\ ErrorFrames(s) < MaxErrorFrames
  /\ outbox' = Send(chan, outbox, s,
         [type |-> "error",
          message |-> IF m.json THEN <<"Unknown message type: ", m.type>>
                      ELSE <<"Invalid JSON">>])
  /\ chan' = [chan EXCEPT ![s] = "closing"]
  /\ UNCHANGED <<assigned, registry, pendingCalls, timers, calls, reqs,
                 completions, stats, activityLog, rand, live, tookOver, chats,
                 recording, clientNotifications, globalNotifications, phase,
                 crashed, dropped,
                 sseClients, sseInbox>>

\* src/test-chat.js:226-232 and 341-342: text that JSON.parse rejects, or a
\* value whose type the switch does not know
BadFrame(s, m) ==
  /\ CanReceive(s)
  /\ ErrorFrames(s) < MaxErrorFrames
  /\ outbox' = Send(chan, outbox, s,
         [type |-> "error",
          message |-> IF m.json THEN <<"Unknown message type: ", m.type>>
                      ELSE <<"Invalid JSON">>])
  /\ UNCHANGED <<chan, assigned, registry, pendingCalls, timers, calls, reqs,
                 completions, stats, activityLog, rand, live, tookOver, chats,
                 recording, clientNotifications, globalNotifications, phase,
                 crashed, dropped,
                 sseClients, sseInbox>>

\* src/test-chat.js:228,234: the text "null" parses to null and msg.type
\* throws a TypeError; no try encloses the switch and the process has no
\* uncaughtException handler, so the process ends
NullFrame(s) ==
  /\ CanReceive(s)
  /\ crashed' = TRUE
  /\ UNCHANGED <<chan, assigned, outbox, registry, pendingCalls, timers,
                 calls, reqs, completions, stats, activityLog, rand, live,
                 tookOver, chats, recording, clientNotifications,
                 globalNotifications, phase, dropped,
                 sseClients, sseInbox>>

\* Subscribe that adds the response without writing the snapshot
Subscribe_NoSnapshot(o) ==
  /\ ~crashed
  /\ o \notin sseClients
  /\ sseInbox[o] = <<>>
  /\ sseClients' = sseClients \cup {o}
  /\ UNCHANGED <<chan, assigned, outbox, registry, pendingCalls, timers,
                 calls, reqs, completions, stats, activityLog, rand, live,
                 tookOver, chats, recording, clientNotifications,
                 globalNotifications, phase, crashed, dropped, sseInbox>>

\* src/test-chat.js:710-719  app.get('/api/events'): the snapshot is
\* written to the new response, which then joins sseClients
Subscribe(o) ==
  /\ ~crashed
  /\ o \notin sseClients
  /\ sseInbox[o] = <<>>
  /\ sseInbox' = [sseInbox EXCEPT ![o] = <<StateFrame(registry, stats)>>]
  /\ sseClients' = sseClients \cup {o}
  /\ UNCHANGED <<chan, assigned, outbox, registry, pendingCalls, timers,
                 calls, reqs, completions, stats, activityLog, rand, live,
                 tookOver, chats, recording, clientNotifications,
                 globalNotifications, phase, crashed, dropped>>

\* src/test-chat.js:720  req.on('close')
ObserverClose(o) ==
  /\ ~crashed
  /\ o \in sseClients
  /\ sseClients' = sseClients \ {o}
  /\ UNCHANGED <<chan, assigned, outbox, registry, pendingCalls, timers,
                 calls, reqs, completions, stats, activityLog, rand, live,
                 tookOver, chats, recording, clientNotifications,
                 globalNotifications, phase, crashed, dropped, sseInbox>>

\* src/test-chat.js:592-606  ListToolsRequestSchema handler: the names
RECURSIVE EntryTools(_, _)
EntryTools(reg, i) ==
  IF i > Len(reg) THEN <<>>
  ELSE [j \in 1..Len(reg[i].tools) |->
          namespacedTool(reg[i].clientId, reg[i].tools[j])]
       \o EntryTools(reg, i + 1)

ListTools == BUILTIN_TOOLS \o EntryTools(registry, 1)

\* the description a register frame gives the descriptor of a tool
\* ("undefined": none)
DeclaredDescription(tool) == IF tool = SPEAK THEN "undefined" ELSE "does x"

\* src/test-chat.js:597-601  the descriptor listed for a tool of an entry
ListedTool(clientId, tool) ==
  [name |-> namespacedTool(clientId, tool),
   description |-> <<"[">> \o clientId
                   \o <<"] ", IF DeclaredDescription(tool) = "undefined"
                              THEN "" ELSE DeclaredDescription(tool)>>]

RECURSIVE EntryDescriptors(_, _)
EntryDescriptors(reg, i) ==
  IF i > Len(reg) THEN <<>>
  ELSE [j \in 1..Len(reg[i].tools) |->
          ListedTool(reg[i].clientId, reg[i].tools[j])]
       \o EntryDescriptors(reg, i + 1)

\* src/test-chat.js:592-606  ListToolsRequestSchema handler: the names and
\* descriptions of the returned tools
ListedTools ==
  [i \in 1..Len(BUILTIN_TOOLS) |->
     [name |-> BUILTIN_TOOLS[i], description |-> <<"built-in">>]]
  \o EntryDescriptors(registry, 1)

\* ------------------------------------------------------------ SDK client
\* src/sdk.js, class BrokerClient.  A WebSocket the client makes is the
\* client end of one session; its readyState is sock.  The client's
\* handlers run to completion like the broker's.

\* tool names the application adds with addTool
SdkToolNames == {<<"x">>, <<"t">>}

\* what a tool handler does when it settles: the kind of value it returns
\* (an array being a content array of two text items), or the Error it
\* throws or rejects with, and the text in it
HandlerOutcomes ==
  { [kind |-> "string", text |-> "done"],
    [kind |-> "array", text |-> "part"],
    [kind |-> "object", text |-> "{n:1}"],
    [kind |-> "error", text |-> "boom"] }

TextItem(text) == [type |-> "text", text |-> text]

\* src/sdk.js:231-235  the handler's result as an MCP content array
Normalize(out) ==
  IF out.kind = "string" THEN <<TextItem(<<out.text>>)>>
  ELSE IF out.kind = "array"
  THEN <<TextItem(<<out.text>>), TextItem(<<out.text>>)>>
  ELSE <<TextItem(<<"JSON.stringify:", out.text>>)>>

\* src/sdk.js:244  the tool_result frame
ToolResultFrame(callId, content, isError) ==
  [type |-> "tool_result", callId |-> callId, content |-> content,
   isError |-> isError]

\* src/sdk.js:171-175  the register frame of _sendRegister
RegisterFrame(c) ==
  [type |-> "register", clientId |-> c.clientId, tools |-> c.tools]

\* ws.send without the test of the readyState
SendIfOpen_Always(out, w, sk, frame) ==
  IF w # 0 THEN [out EXCEPT ![w] = Append(@, frame)]
  ELSE out

\* ws.send on socket w of the client when its readyState is OPEN; nothing
\* when w is null or its socket is closing or closed (src/sdk.js:62, 121,
\* 243 test the readyState, and a closing socket discards the frame)
SendIfOpen(out, w, sk, frame) ==
  IF w # 0 /\ sk[w] = "open" THEN [out EXCEPT ![w] = Append(@, frame)]
  ELSE out

\* Map.prototype.has on _tools
HasTool(c, tool) == \E i \in 1..Len(c.tools) : c.tools[i] = tool

\* src/sdk.js:71-75  connect() up to the construction of the socket; s is
\* the session the new socket is the client end of
connect(s) ==
  /\ sock[s] = "none"
  /\ \A t \in Sessions : t < s => sock[t] # "none"
  /\ client' = [client EXCEPT !.closed = FALSE, !.ws = s]
  /\ sock' = [sock EXCEPT ![s] = "connecting"]
  /\ promise' = [promise EXCEPT ![s] = "pending"]

\* src/sdk.js:71-107  the application calls connect()
SdkConnect(s) ==
  /\ ~threw
  /\ connect(s)
  /\ UNCHANGED <<reconnects, clientSent, clientRecv, taken, runs, chatCalls,
                 threw>>
  /\ UNCHANGED brokerVars

\* SdkOpen that resolves the connect promise when the socket opens
SdkOpen_Resolves(s) ==
  /\ ~threw
  /\ sock[s] = "connecting"
  /\ LET sock1 == [sock EXCEPT ![s] = "open"]
         w == client.ws
         throws == IF w = 0 THEN TRUE ELSE sock1[w] = "connecting"
     IN  /\ sock' = sock1
         /\ client' = [client EXCEPT !.reconnectDelay = RECONNECT_DELAY_MS]
         /\ threw' = throws
         /\ clientSent' = IF throws THEN clientSent
                          ELSE SendIfOpen(clientSent, w, sock1,
                                          RegisterFrame(client))
  /\ promise' = [promise EXCEPT ![s] = "resolved"]
  /\ UNCHANGED <<reconnects, clientRecv, taken, runs, chatCalls>>
  /\ UNCHANGED brokerVars

\* src/sdk.js:76-79  'open' of socket s, then _sendRegister (166-176) on
\* this._ws: a TypeError when this._ws is null and an Error of ws.send
\* when that socket is still connecting, neither of them caught
SdkOpen(s) ==
  /\ ~threw
  /\ sock[s] = "connecting"
  /\ LET sock1 == [sock EXCEPT ![s] = "open"]
         w == client.ws
         throws == IF w = 0 THEN TRUE ELSE sock1[w] = "connecting"
     IN  /\ sock' = sock1
         /\ client' = [client EXCEPT !.reconnectDelay = RECONNECT_DELAY_MS]
         /\ threw' = throws
         /\ clientSent' = IF throws THEN clientSent
                          ELSE SendIfOpen(clientSent, w, sock1,
                                          RegisterFrame(client))
  /\ UNCHANGED <<promise, reconnects, clientRecv, taken, runs, chatCalls>>
  /\ UNCHANGED brokerVars

\* src/sdk.js:219-240  _handleToolCall up to its first suspension: the
\* unknown-tool answer, or the handler's invocation; a handler that
\* settles without waiting for an event is awaited in the same run
HandleToolCall(s, msg) ==
  IF ~HasTool(client, msg.tool)
  THEN /\ clientSent' =
            SendIfOpen(clientSent, client.ws, sock,
              ToolResultFrame(msg.callId,
                <<TextItem(<<"Unknown tool: ">> \o msg.tool)>>, TRUE))
       /\ runs' = Append(runs,
                    [callId |-> msg.callId, tool |-> msg.tool, ws |-> s,
                     recvOpen |-> sock[s] = "open", state |-> "done",
                     out |-> [kind |-> "unknown", text |-> ""],
                     wasOpen |-> client.ws # 0 /\ sock[client.ws] = "open",
                     via |-> client.ws])
  ELSE \/ \E out \in HandlerOutcomes :
            /\ clientSent' =
                 SendIfOpen(clientSent, client.ws, sock,
                   IF out.kind = "error"
                   THEN ToolResultFrame(msg.callId,
                          <<TextItem(<<"Error: ", out.text>>)>>, TRUE)
                   ELSE ToolResultFrame(msg.callId, Normalize(out), FALSE))
            /\ runs' = Append(runs,
                         [callId |-> msg.callId, tool |-> msg.tool,
                          ws |-> s, recvOpen |-> sock[s] = "open",
                          state |-> "done", out |-> out,
                          wasOpen |-> client.ws # 0
                                        /\ sock[client.ws] = "open",
                          via |-> client.ws])
       \/ /\ runs' = Append(runs,
                       [callId |-> msg.callId, tool |-> msg.tool, ws |-> s,
                        recvOpen |-> sock[s] = "open", state |-> "running",
                        out |-> [kind |-> "none", text |-> ""],
                        wasOpen |-> FALSE, via |-> 0])
          /\ UNCHANGED clientSent

\* src/sdk.js:197-215  chat_response and chat_error
ChatAnswer(msg, state, reason) ==
  IF msg.requestId \in client.pendingChats
  THEN /\ client' = [client EXCEPT !.pendingChats = @ \ {msg.requestId}]
       /\ chatCalls' = [chatCalls EXCEPT ![msg.requestId] =
                          [state |-> state, reason |-> reason,
                           timer |-> FALSE]]
  ELSE UNCHANGED <<client, chatCalls>>

\* src/sdk.js:81-89 and 178-217  'message' of socket s: a frame that is no
\* JSON (type "garbage") is ignored, as is a type without a case
SdkMessage(s, msg) ==
  /\ ~threw
  /\ sock[s] \in {"open", "closing"}
  /\ clientRecv' = [clientRecv EXCEPT ![s] = Append(@, msg)]
  /\ IF msg.type = "registered"
     THEN /\ client' = [client EXCEPT !.registered = TRUE]
          /\ promise' = [promise EXCEPT ![s] =
                           IF @ = "pending" THEN "resolved" ELSE @]
          /\ UNCHANGED <<clientSent, runs, chatCalls>>
     ELSE IF msg.type = "error"
     THEN /\ promise' = [promise EXCEPT ![s] =
                           IF @ = "pending" /\ ~client.registered
                           THEN "rejected" ELSE @]
          /\ UNCHANGED <<client, clientSent, runs, chatCalls>>
     ELSE IF msg.type = "tool_call"
     THEN /\ HandleToolCall(s, msg)
          /\ UNCHANGED <<client, promise, chatCalls>>
     ELSE IF msg.type = "chat_response"
     THEN /\ ChatAnswer(msg, "resolved", "")
          /\ UNCHANGED <<promise, clientSent, runs>>
     ELSE IF msg.type = "chat_error"
     THEN /\ ChatAnswer(msg, "rejected", "chat_error")
          /\ UNCHANGED <<promise, clientSent, runs>>
     ELSE UNCHANGED <<client, promise, clientSent, runs, chatCalls>>
  /\ UNCHANGED <<sock, reconnects, taken, threw>>
  /\ UNCHANGED brokerVars

\* src/sdk.js:229-239  the handler of invocation k settles after the run
\* that invoked it: the result, or the error, goes to this._ws as it is now
SdkHandlerDone(k, out) ==
  /\ ~threw
  /\ k \in 1..Len(runs)
  /\ runs[k].state = "running"
  /\ clientSent' =
       SendIfOpen(clientSent, client.ws, sock,
         IF out.kind = "error"
         THEN ToolResultFrame(runs[k].callId,
                <<TextItem(<<"Error: ", out.text>>)>>, TRUE)
         ELSE ToolResultFrame(runs[k].callId, Normalize(out), FALSE))
  /\ runs' = [runs EXCEPT ![k] =
                [@ EXCEPT !.state = "done", !.out = out,
                          !.wasOpen = client.ws # 0
                                        /\ sock[client.ws] = "open",
                          !.via = client.ws]]
  /\ UNCHANGED <<client, sock, promise, reconnects, clientRecv, taken,
                 chatCalls, threw>>
  /\ UNCHANGED brokerVars

\* the reconnect timer without the test of _closed
ReconnectTimer_Unconditional ==
  /\ ~threw
  /\ reconnects > 0
  /\ reconnects' = reconnects - 1
  /\ \E s \in Sessions : connect(s)
  /\ UNCHANGED <<clientSent, clientRecv, taken, runs, chatCalls, threw>>
  /\ UNCHANGED brokerVars

\* src/sdk.js:95-97  the reconnect timer fires
ReconnectTimer ==
  /\ ~threw
  /\ reconnects > 0
  /\ reconnects' = reconnects - 1
  /\ IF ~client.closed
     THEN \E s \in Sessions : connect(s)
     ELSE UNCHANGED <<client, sock, promise>>
  /\ UNCHANGED <<clientSent, clientRecv, taken, runs, chatCalls, threw>>
  /\ UNCHANGED brokerVars

\* src/sdk.js:91-100  'close' of socket s
SdkSocketClose(s) ==
  /\ ~threw
  /\ sock[s] \in {"connecting", "open", "closing"}
  /\ sock' = [sock EXCEPT ![s] = "closed"]
  /\ LET again == ~client.closed /\ client.autoReconnect
     IN  /\ client' =
              [client EXCEPT
                 !.registered = FALSE,
                 !.reconnectDelay =
                    IF ~again THEN @
                    ELSE IF @ * 2 < MAX_RECONNECT_DELAY_MS THEN @ * 2
                    ELSE MAX_RECONNECT_DELAY_MS]
         /\ reconnects' = IF again THEN reconnects + 1 ELSE reconnects
  /\ UNCHANGED <<promise, clientSent, clientRecv, taken, runs, chatCalls,
                 threw>>
  /\ UNCHANGED brokerVars

\* src/sdk.js:102-105  'error' of socket s
SdkSocketError(s) ==
  /\ ~threw
  /\ sock[s] \in {"connecting", "open", "closing"}
  /\ promise' = [promise EXCEPT ![s] =
                   IF @ = "pending" /\ ~client.registered THEN "rejected"
                   ELSE @]
  /\ UNCHANGED <<client, sock, reconnects, clientSent, clientRecv, taken,
                 runs, chatCalls, threw>>
  /\ UNCHANGED brokerVars

\* src/sdk.js:112-128  disconnect()
SdkDisconnect ==
  /\ ~threw
  /\ chatCalls' = [i \in DOMAIN chatCalls |->
                     IF i \in client.pendingChats
                     THEN [state |-> "rejected", reason |-> "Disconnected",
                           timer |-> FALSE]
                     ELSE chatCalls[i]]
  /\ clientSent' = SendIfOpen(clientSent, client.ws, sock,
                              [type |-> "unregister"])
  /\ sock' = IF client.ws = 0 THEN sock
             ELSE [sock EXCEPT ![client.ws] =
                     IF @ \in {"connecting", "open"} THEN "closing" ELSE @]
  /\ client' = [client EXCEPT !.closed = TRUE, !.pendingChats = {},
                              !.ws = 0, !.registered = FALSE]
  /\ UNCHANGED <<promise, reconnects, clientRecv, taken, runs, threw>>
  /\ UNCHANGED brokerVars

\* src/sdk.js:52-65  addTool with a name and a handler
SdkAddTool(name) ==
  /\ ~threw
  /\ LET c == [client EXCEPT !.tools = IF HasTool(client, name) THEN @
                                       ELSE Append(@, name)]
     IN  /\ client' = c
         /\ clientSent' =
              IF client.registered
              THEN SendIfOpen(clientSent, client.ws, sock, RegisterFrame(c))
              ELSE clientSent
  /\ UNCHANGED <<sock, promise, reconnects, clientRecv, taken, runs,
                 chatCalls, threw>>
  /\ UNCHANGED brokerVars

\* src/sdk.js:140-162  chat(payload): the request id is the number of the
\* call
SdkChat ==
  /\ ~threw
  /\ LET id == Len(chatCalls) + 1
         up == IF client.registered /\ client.ws # 0
               THEN sock[client.ws] = "open" ELSE FALSE
     IN  IF ~up
         THEN /\ chatCalls' =
                   Append(chatCalls,
                     [state |-> "rejected",
                      reason |-> "Not connected to broker",
                      timer |-> FALSE])
              /\ UNCHANGED <<client, clientSent>>
         ELSE /\ chatCalls' =
                   Append(chatCalls,
                     [state |-> "pending", reason |-> "", timer |-> TRUE])
              /\ client' = [client EXCEPT !.pendingChats = @ \cup {id}]
              /\ clientSent' =
                   SendIfOpen(clientSent, client.ws, sock,
                     [type |-> "chat_request", requestId |-> id])
  /\ UNCHANGED <<sock, promise, reconnects, clientRecv, taken, runs, threw>>
  /\ UNCHANGED brokerVars

\* src/sdk.js:149-152  the timer of chat call i fires
SdkChatTimeout(i) ==
  /\ ~threw
  /\ i \in 1..Len(chatCalls)
  /\ chatCalls[i].timer
  /\ client' = [client EXCEPT !.pendingChats = @ \ {i}]
  /\ chatCalls' = [chatCalls EXCEPT ![i] =
                     [state |-> IF @.state = "pending" THEN "rejected"
                                ELSE @.state,
                      reason |-> IF @.state = "pending" THEN "timed out"
                                 ELSE @.reason,
                      timer |-> FALSE]]
  /\ UNCHANGED <<sock, promise, reconnects, clientSent, clientRecv, taken,
                 runs, threw>>
  /\ UNCHANGED brokerVars

\* ------------------------------------------------------- specifications
\* Spec: provider sessions and consumer calls routed to them.
\* One provider id, a tool it declares, an id nobody registers.
CallRegisterInputs == { [clientId |-> <<"a">>, tools |-> << <<"x">> >>] }

CoreCallInputs ==
  { [name |-> <<"a", "_", "_", "x">>, args |-> "a1"],
    [name |-> <<"a", "_", "_", "x">>, args |-> "undefined"],
    [name |-> <<"b", "_", "_", "x">>, args |-> "a1"] }

Next ==
  \/ /\ \E s \in Sessions : Connect(s)
     /\ UNCHANGED sdkVars
  \/ /\ \E s \in Sessions, m \in CallRegisterInputs :
          Register(s, m.clientId, m.tools)
     /\ UNCHANGED sdkVars
  \/ /\ \E s \in Sessions : Unregister(s)
     /\ UNCHANGED sdkVars
  \/ /\ \E s \in Sessions : Close(s)
     /\ UNCHANGED sdkVars
  \/ /\ \E m \in CoreCallInputs : ConsumerCallTool(m.name, m.args)
     /\ UNCHANGED sdkVars
  \/ /\ \E s \in Sessions, c \in 1..MaxRequests, m \in ResultInputs :
          ToolResult(s, c, m)
     /\ UNCHANGED sdkVars
  \/ /\ \E c \in 1..MaxRequests : TimerFire(c)
     /\ UNCHANGED sdkVars

Spec == Init /\ [][Next]_vars

\* LiveSpec: Spec with the one scheduling assumption that an armed timer
\* fires (setTimeout of src/test-chat.js:507)
LiveSpec == Spec
  /\ \A c \in 1..MaxRequests : WF_vars(TimerFire(c) /\ UNCHANGED sdkVars)

\* RegSpec: the registry under every register input
RegNext ==
  \/ /\ \E s \in Sessions : Connect(s)
     /\ UNCHANGED sdkVars
  \/ /\ \E s \in Sessions, m \in RegisterInputs :
          Register(s, m.clientId, m.tools)
     /\ UNCHANGED sdkVars
  \/ /\ \E s \in Sessions : Unregister(s)
     /\ UNCHANGED sdkVars
  \/ /\ \E s \in Sessions : Close(s)
     /\ UNCHANGED sdkVars

RegSpec == Init /\ [][RegNext]_vars

\* StatsSpec: every entry point that updates the tool and chat counters
StatsCallInputs ==
  { [name |-> LIST_BROKER_CLIENTS, args |-> "undefined"],
    [name |-> SPEAK, args |-> "a1"],
    [name |-> <<"n", "o">>, args |-> "a1"],
    [name |-> <<"a", "_", "_", "x">>, args |-> "a1"] }

StatsNext ==
  \/ /\ Connect(1)
     /\ UNCHANGED sdkVars
  \/ /\ \E m \in CallRegisterInputs : Register(1, m.clientId, m.tools)
     /\ UNCHANGED sdkVars
  \/ /\ Close(1)
     /\ UNCHANGED sdkVars
  \/ /\ \E m \in StatsCallInputs : ConsumerCallTool(m.name, m.args)
     /\ UNCHANGED sdkVars
  \/ /\ \E given \in {<<>>, <<"k1">>}, m \in StatsCallInputs :
          CallToolFrame(1, given, TRUE, m.name, m.args)
     /\ UNCHANGED sdkVars
  \/ /\ CallToolFrame(1, <<"k1">>, FALSE, <<>>, "undefined")
     /\ UNCHANGED sdkVars
  \/ /\ \E c \in 1..MaxRequests, m \in ResultInputs : ToolResult(1, c, m)
     /\ UNCHANGED sdkVars
  \/ /\ \E c \in 1..MaxRequests : TimerFire(c)
     /\ UNCHANGED sdkVars
  \/ /\ \E m \in ChatInputs : ChatRequestFrame(1, m.requestId, m.payload)
     /\ UNCHANGED sdkVars
  \/ /\ ApiChat
     /\ UNCHANGED sdkVars
  \/ /\ \E i \in 1..MaxRequests, ok \in BOOLEAN : UpstreamDone(i, ok)
     /\ UNCHANGED sdkVars

StatsSpec == Init /\ [][StatsNext]_vars

\* RingSpec: one provider that registers and then sends notifications until
\* every buffer has been full; its channel may close at any time
RingNext ==
  \/ /\ Connect(1)
     /\ UNCHANGED sdkVars
  \/ /\ stats.notifications = 0
     /\ \E m \in CallRegisterInputs : Register(1, m.clientId, m.tools)
     /\ UNCHANGED sdkVars
  \/ /\ Notification(1, "e1")
     /\ UNCHANGED sdkVars
  \/ /\ Close(1)
     /\ UNCHANGED sdkVars

RingSpec == RecInit /\ [][RingNext]_vars

\* NoteSpec: sessions that register one id, send notifications, unregister
\* and close, in every order
NoteNext ==
  \/ /\ \E s \in Sessions : Connect(s)
     /\ UNCHANGED sdkVars
  \/ /\ \E s \in Sessions, m \in CallRegisterInputs :
          Register(s, m.clientId, m.tools)
     /\ UNCHANGED sdkVars
  \/ /\ \E s \in Sessions : Unregister(s)
     /\ UNCHANGED sdkVars
  \/ /\ \E s \in Sessions : Close(s)
     /\ UNCHANGED sdkVars
  \/ /\ stats.notifications < MaxNotes
     /\ \E s \in Sessions, e \in NoteInputs : Notification(s, e)
     /\ UNCHANGED sdkVars

NoteSpec == RecInit /\ [][NoteNext]_vars

\* FrameSpec: one session that registers, with a pending call and stored
\* notifications, and the frames the switch has no case for
FrameRegisterInputs ==
  CallRegisterInputs \cup { [clientId |-> <<"a">>, tools |-> <<NullTool>>] }

FrameNext ==
  \/ /\ Connect(1)
     /\ UNCHANGED sdkVars
  \/ /\ \E m \in FrameRegisterInputs : Register(1, m.clientId, m.tools)
     /\ UNCHANGED sdkVars
  \/ /\ Close(1)
     /\ UNCHANGED sdkVars
  \/ /\ \E m \in BadFrames : BadFrame(1, m)
     /\ UNCHANGED sdkVars
  \/ /\ NullFrame(1)
     /\ UNCHANGED sdkVars
  \/ /\ stats.notifications < MaxNotes
     /\ Notification(1, "e1")
     /\ UNCHANGED sdkVars
  \/ /\ ConsumerCallTool(<<"a", "_", "_", "x">>, "a1")
     /\ UNCHANGED sdkVars

FrameSpec == RecInit /\ [][FrameNext]_vars

\* ReplaceSpec: sessions that register the same id, replacing one another
\* and themselves, with the activity log kept
ReplaceNext ==
  \/ /\ \E s \in Sessions : Connect(s)
     /\ UNCHANGED sdkVars
  \/ /\ \E s \in Sessions, m \in CallRegisterInputs :
          RegisterUpTo(MaxReplaceRegisters, s, m.clientId, m.tools)
     /\ UNCHANGED sdkVars
  \/ /\ \E s \in Sessions : Unregister(s)
     /\ UNCHANGED sdkVars
  \/ /\ \E s \in Sessions : Close(s)
     /\ UNCHANGED sdkVars

ReplaceSpec == RecInit /\ [][ReplaceNext]_vars

\* DispatchSpec: registrations of one id, by any session and with any
\* tools array, interleaved with consumer calls and call_tool frames that
\* are routed to that id
DispatchNext ==
  \/ /\ \E s \in Sessions : Connect(s)
     /\ UNCHANGED sdkVars
  \/ /\ \E s \in Sessions, m \in FrameRegisterInputs :
          Register(s, m.clientId, m.tools)
     /\ UNCHANGED sdkVars
  \/ /\ \E s \in Sessions : Close(s)
     /\ UNCHANGED sdkVars
  \/ /\ ConsumerCallTool(<<"a", "_", "_", "x">>, "a1")
     /\ UNCHANGED sdkVars
  \/ /\ \E s \in Sessions :
          CallToolFrame(s, <<"k1">>, TRUE, <<"a", "_", "_", "x">>, "a1")
     /\ UNCHANGED sdkVars

DispatchSpec == Init /\ [][DispatchNext]_vars

\* NotifySpec: a provider that sends notifications, observers of the event
\* stream, and a consumer that reads the notifications back
NotifyNext ==
  \/ /\ Connect(1)
     /\ UNCHANGED sdkVars
  \/ /\ stats.totalConnections = 0
     /\ \E m \in CallRegisterInputs : Register(1, m.clientId, m.tools)
     /\ UNCHANGED sdkVars
  \/ /\ Close(1)
     /\ UNCHANGED sdkVars
  \/ /\ stats.notifications < MaxNotes
     /\ \E e \in NoteInputs : Notification(1, e)
     /\ UNCHANGED sdkVars
  \/ /\ \E o \in Observers : Subscribe(o)
     /\ UNCHANGED sdkVars
  \/ /\ \E o \in Observers : ObserverClose(o)
     /\ UNCHANGED sdkVars
  \/ /\ reqs = <<>>
     /\ \E a \in GetInputs : ConsumerCallTool(GET_NOTIFICATIONS, a)
     /\ UNCHANGED sdkVars

NotifySpec == Init /\ [][NotifyNext]_vars

\* ChatSpec: chat_request frames of sessions that may register and close,
\* and the upstream calls they start
ChatNext ==
  \/ /\ \E s \in Sessions : Connect(s)
     /\ UNCHANGED sdkVars
  \/ /\ \E s \in Sessions, m \in CallRegisterInputs :
          Register(s, m.clientId, m.tools)
     /\ UNCHANGED sdkVars
  \/ /\ \E s \in Sessions : Close(s)
     /\ UNCHANGED sdkVars
  \/ /\ \E s \in Sessions, m \in ChatInputs :
          ChatRequestFrame(s, m.requestId, m.payload)
     /\ UNCHANGED sdkVars
  \/ /\ \E i \in 1..MaxRequests, ok \in BOOLEAN : UpstreamDone(i, ok)
     /\ UNCHANGED sdkVars

ChatSpec == RecInit /\ [][ChatNext]_vars

\* ChatLiveSpec: StatsSpec with the scheduling the code sets up: every
\* armed timer fires (setTimeout of src/test-chat.js:507).  proxyChat and
\* ollamaGenerate (363-409) arm no timer and pass fetch no signal, so
\* nothing is assumed about when, or whether, an upstream call settles
ChatLiveSpec == StatsSpec
  /\ \A c \in 1..MaxRequests : WF_vars(TimerFire(c) /\ UNCHANGED sdkVars)

\* CallFrameSpec: call_tool frames of the last session for every kind of
\* target, among them the provider that the first session registers; a
\* stored notification, channels that close, and every armed timer firing
\* (setTimeout of src/test-chat.js:507)
CallFrameInputs ==
  { [name |-> LIST_BROKER_CLIENTS, args |-> "undefined"],
    [name |-> GET_NOTIFICATIONS,
     args |-> [clientId |-> <<"a">>, hasLimit |-> FALSE, limit |-> 0]],
    [name |-> <<"n", "o">>, args |-> "a1"],
    [name |-> <<"b", "_", "_", "x">>, args |-> "a1"],
    [name |-> <<"a", "_", "_", "x">>, args |-> "a1"] }

CallFrameNext ==
  \/ /\ \E s \in Sessions : Connect(s)
     /\ UNCHANGED sdkVars
  \/ /\ stats.totalConnections = 0
     /\ \E m \in CallRegisterInputs : Register(1, m.clientId, m.tools)
     /\ UNCHANGED sdkVars
  \/ /\ \E s \in Sessions : Close(s)
     /\ UNCHANGED sdkVars
  \/ /\ stats.notifications < 1
     /\ Notification(1, "e1")
     /\ UNCHANGED sdkVars
  \/ /\ \E given \in {<<>>, <<"k1">>}, m \in CallFrameInputs :
          CallToolFrame(NumSessions, given, TRUE, m.name, m.args)
     /\ UNCHANGED sdkVars
  \/ /\ CallToolFrame(NumSessions, <<"k1">>, FALSE, <<>>, "undefined")
     /\ UNCHANGED sdkVars
  \/ /\ \E c \in 1..MaxRequests, m \in ResultInputs : ToolResult(1, c, m)
     /\ UNCHANGED sdkVars
  \/ /\ \E c \in 1..MaxRequests : TimerFire(c)
     /\ UNCHANGED sdkVars

CallFrameSpec ==
  /\ Init /\ [][CallFrameNext]_vars
  /\ \A c \in 1..MaxRequests : WF_vars(TimerFire(c) /\ UNCHANGED sdkVars)

\* RouteSpec: consumer calls for every branch of the router, with the
\* kokoro-tts provider registered or not, and the activity log kept
RouteInputs ==
  { [name |-> LIST_BROKER_CLIENTS, args |-> "undefined"],
    [name |-> GET_NOTIFICATIONS,
     args |-> [clientId |-> <<>>, hasLimit |-> FALSE, limit |-> 0]],
    [name |-> SPEAK, args |-> "a1"],
    [name |-> SPEAK_ACTION, args |-> [action |-> ""]],
    [name |-> SPEAK_ACTION, args |-> [action |-> "Fold"]],
    [name |-> ASK_AI, args |-> [prompt |-> "", speak |-> FALSE]],
    [name |-> ASK_AI, args |-> [prompt |-> "hi", speak |-> FALSE]],
    [name |-> ASK_AI, args |-> [prompt |-> "hi", speak |-> TRUE]],
    [name |-> <<"n", "o">>, args |-> "a1"],
    [name |-> <<"b", "_", "_", "x">>, args |-> "a1"],
    [name |-> namespacedTool(KOKORO, SPEAK), args |-> "a1"] }

RouteNext ==
  \/ /\ Connect(1)
     /\ UNCHANGED sdkVars
  \/ /\ Register(1, KOKORO, <<SPEAK>>)
     /\ UNCHANGED sdkVars
  \/ /\ Close(1)
     /\ UNCHANGED sdkVars
  \/ /\ \E m \in RouteInputs : ConsumerCallTool(m.name, m.args)
     /\ UNCHANGED sdkVars
  \/ /\ \E r \in 1..MaxRequests, ok \in BOOLEAN, text \in UpstreamTexts :
          OllamaDone(r, ok, text)
     /\ UNCHANGED sdkVars
  \/ /\ \E c \in 1..MaxRequests, m \in ResultInputs : ToolResult(1, c, m)
     /\ UNCHANGED sdkVars
  \/ /\ \E c \in 1..MaxRequests : TimerFire(c)
     /\ UNCHANGED sdkVars

RouteSpec == RecInit /\ [][RouteNext]_vars

\* ObserverSpec: observers that subscribe and leave while a provider
\* registers, sends a notification, unregisters and closes and a consumer
\* calls a tool, with the activity log kept
ObserverNext ==
  \/ /\ Connect(1)
     /\ UNCHANGED sdkVars
  \/ /\ \E m \in CallRegisterInputs : Register(1, m.clientId, m.tools)
     /\ UNCHANGED sdkVars
  \/ /\ Unregister(1)
     /\ UNCHANGED sdkVars
  \/ /\ Close(1)
     /\ UNCHANGED sdkVars
  \/ /\ stats.notifications < 1
     /\ Notification(1, "e1")
     /\ UNCHANGED sdkVars
  \/ /\ reqs = <<>>
     /\ ConsumerCallTool(<<"b", "_", "_", "x">>, "a1")
     /\ UNCHANGED sdkVars
  \/ /\ \E o \in Observers : Subscribe(o)
     /\ UNCHANGED sdkVars
  \/ /\ \E o \in Observers : ObserverClose(o)
     /\ UNCHANGED sdkVars

ObserverSpec == RecInit /\ [][ObserverNext]_vars

\* ListSpec: the registry under every register input, with enough register
\* frames for an id to register again after another id
ListRegisterInputs ==
  RegisterInputs
    \cup { [clientId |-> <<"b">>, tools |-> << <<"x">>, <<"y">> >>] }

ListNext ==
  \/ /\ \E s \in Sessions : Connect(s)
     /\ UNCHANGED sdkVars
  \/ /\ \E s \in Sessions, m \in ListRegisterInputs :
          RegisterUpTo(MaxReplaceRegisters, s, m.clientId, m.tools)
     /\ UNCHANGED sdkVars
  \/ /\ \E s \in Sessions : Unregister(s)
     /\ UNCHANGED sdkVars
  \/ /\ \E s \in Sessions : Close(s)
     /\ UNCHANGED sdkVars

ListSpec == Init /\ [][ListNext]_vars

\* IdSpec: register frames whose clientId is valid, has characters outside
\* [a-zA-Z0-9_-] in every position, or is missing
IdInputs ==
  RegisterInputs
    \cup { [clientId |-> <<"@", ".", "a">>, tools |-> <<>>],
           [clientId |-> <<"_", "-", "9">>, tools |-> <<>>],
           [clientId |-> <<"/">>, tools |-> <<>>] }

IdNext ==
  \/ /\ \E s \in Sessions : Connect(s)
     /\ UNCHANGED sdkVars
  \/ /\ \E s \in Sessions, m \in IdInputs : Register(s, m.clientId, m.tools)
     /\ UNCHANGED sdkVars
  \/ /\ \E s \in Sessions : Close(s)
     /\ UNCHANGED sdkVars

IdSpec == Init /\ [][IdNext]_vars

\* GetSpec: a provider that sends notifications and consumers that read
\* them back with a limit
GetNext ==
  \/ /\ Connect(1)
     /\ UNCHANGED sdkVars
  \/ /\ stats.totalConnections = 0
     /\ \E m \in CallRegisterInputs : Register(1, m.clientId, m.tools)
     /\ UNCHANGED sdkVars
  \/ /\ Close(1)
     /\ UNCHANGED sdkVars
  \/ /\ stats.notifications < MaxNotes
     /\ \E e \in NoteInputs : Notification(1, e)
     /\ UNCHANGED sdkVars
  \/ /\ \E a \in LimitInputs : ConsumerCallTool(GET_NOTIFICATIONS, a)
     /\ UNCHANGED sdkVars

GetSpec == Init /\ [][GetNext]_vars

\* SnapshotSpec: sessions that register, replace one another, unregister
\* and close, under every tools array, while observers subscribe and leave
SnapshotInputs ==
  FrameRegisterInputs \cup { [clientId |-> <<"b">>, tools |-> <<>>] }

SnapshotNext ==
  \/ /\ \E s \in Sessions : Connect(s)
     /\ UNCHANGED sdkVars
  \/ /\ \E s \in Sessions, m \in SnapshotInputs :
          Register(s, m.clientId, m.tools)
     /\ UNCHANGED sdkVars
  \/ /\ \E s \in Sessions : Unregister(s)
     /\ UNCHANGED sdkVars
  \/ /\ \E s \in Sessions : Close(s)
     /\ UNCHANGED sdkVars
  \/ /\ \E o \in Observers : Subscribe(o)
     /\ UNCHANGED sdkVars
  \/ /\ \E o \in Observers : ObserverClose(o)
     /\ UNCHANGED sdkVars

SnapshotSpec == Init /\ [][SnapshotNext]_vars

\* ClearSpec: sessions that register under two ids, send notifications and
\* close
ClearInputs ==
  CallRegisterInputs \cup { [clientId |-> <<"b">>, tools |-> <<>>] }

ClearNext ==
  \/ /\ \E s \in Sessions : Connect(s)
     /\ UNCHANGED sdkVars
  \/ /\ \E s \in Sessions, m \in ClearInputs :
          RegisterUpTo(MaxReplaceRegisters, s, m.clientId, m.tools)
     /\ UNCHANGED sdkVars
  \/ /\ \E s \in Sessions : Close(s)
     /\ UNCHANGED sdkVars
  \/ /\ stats.notifications < MaxNotes
     /\ \E s \in Sessions : Notification(s, "e1")
     /\ UNCHANGED sdkVars

ClearSpec == Init /\ [][ClearNext]_vars

\* PairSpec: sessions that each register under clientId strings of their
\* own, no string being used by two sessions; the strings of sessions 1 and
\* 2 differ in a character outside [a-zA-Z0-9_-] only, or in a valid one
PairInputs(s) ==
  IF s = 1 THEN {<<"a", " ">>}
  ELSE IF s = 2 THEN {<<"a", ".">>, <<"b">>}
  ELSE {<<"c", ToString(s)>>}

PairNext ==
  \/ /\ \E s \in Sessions : Connect(s)
     /\ UNCHANGED sdkVars
  \/ /\ \E s \in Sessions : \E raw \in PairInputs(s) :
          RegisterUpTo(MaxReplaceRegisters, s, raw, << <<"x">> >>)
     /\ UNCHANGED sdkVars
  \/ /\ \E s \in Sessions : Unregister(s)
     /\ UNCHANGED sdkVars
  \/ /\ \E s \in Sessions : Close(s)
     /\ UNCHANGED sdkVars

PairSpec == Init /\ [][PairNext]_vars

\* DeclSpec: a provider that declares tool x, or no tool, and calls to its
\* declared tool, to a tool it did not declare and to an unknown provider
DeclRegisterInputs ==
  CallRegisterInputs \cup { [clientId |-> <<"a">>, tools |-> <<>>] }

DeclCallInputs ==
  { [name |-> <<"a", "_", "_", "x">>, args |-> "a1"],
    [name |-> <<"a", "_", "_", "t">>, args |-> "a1"],
    [name |-> <<"b", "_", "_", "x">>, args |-> "a1"] }

DeclNext ==
  \/ /\ \E s \in Sessions : Connect(s)
     /\ UNCHANGED sdkVars
  \/ /\ \E m \in DeclRegisterInputs : Register(1, m.clientId, m.tools)
     /\ UNCHANGED sdkVars
  \/ /\ \E s \in Sessions : Close(s)
     /\ UNCHANGED sdkVars
  \/ /\ \E m \in DeclCallInputs : ConsumerCallTool(m.name, m.args)
     /\ UNCHANGED sdkVars
  \/ /\ \E m \in DeclCallInputs :
          CallToolFrame(NumSessions, <<"k1">>, TRUE, m.name, m.args)
     /\ UNCHANGED sdkVars
  \/ /\ \E c \in 1..MaxRequests, m \in ResultInputs : ToolResult(1, c, m)
     /\ UNCHANGED sdkVars
  \/ /\ \E c \in 1..MaxRequests : TimerFire(c)
     /\ UNCHANGED sdkVars

DeclSpec == Init /\ [][DeclNext]_vars

\* the initial state of the specifications of the client: the broker's
\* state is not used by them, and the client is constructed with either
\* value of the autoReconnect option
SdkInit ==
  /\ BrokerBoot
  /\ recording = FALSE
  /\ \E autoReconnect \in BOOLEAN : NewClient(autoReconnect)

\* a frame that a server sends on the socket of session s
ServerFrame(s, msg) ==
  /\ Len(clientRecv[s]) < MaxServerFrames
  /\ SdkMessage(s, msg)

\* SdkSpec: the client with an application that calls connect and
\* disconnect at any time, and a server that accepts or fails its
\* connections and sends it registered, error and unparsable frames
SdkNext ==
  \/ \E s \in Sessions : SdkConnect(s)
  \/ \E s \in Sessions : SdkOpen(s)
  \/ \E s \in Sessions :
       ServerFrame(s, [type |-> "registered", clientId |-> client.clientId])
  \/ \E s \in Sessions :
       ServerFrame(s, [type |-> "error", message |-> "Invalid JSON"])
  \/ \E s \in Sessions : ServerFrame(s, [type |-> "garbage"])
  \/ ReconnectTimer
  \/ \E s \in Sessions : SdkSocketClose(s)
  \/ \E s \in Sessions : SdkSocketError(s)
  \/ SdkDisconnect

SdkSpec == SdkInit /\ [][SdkNext]_vars

\* ChatSdkSpec: the client with an application that calls connect,
\* disconnect and chat at any time, and a server that registers it and
\* answers its chat requests, or does not, while its sockets may close
ChatSdkNext ==
  \/ \E s \in Sessions : SdkConnect(s)
  \/ \E s \in Sessions : SdkOpen(s)
  \/ \E s \in Sessions :
       ServerFrame(s, [type |-> "registered", clientId |-> client.clientId])
  \/ \E s \in Sessions, type \in {"chat_response", "chat_error"},
        id \in 1..MaxChats :
       ServerFrame(s, [type |-> type, requestId |-> id])
  \/ ReconnectTimer
  \/ \E s \in Sessions : SdkSocketClose(s)
  \/ SdkDisconnect
  \/ /\ Len(chatCalls) < MaxChats
     /\ SdkChat
  \/ \E i \in 1..MaxChats : SdkChatTimeout(i)

ChatSdkSpec == SdkInit /\ [][ChatSdkNext]_vars

\* ToolSpec: the client with tool x added, connected by the application
\* once and by its reconnect timer afterwards, and a server that sends it
\* registered and tool_call frames for x and for a tool u it does not
\* have, while the application may disconnect and the sockets may close
ToolNext ==
  \/ /\ ~HasTool(client, <<"x">>)
     /\ SdkAddTool(<<"x">>)
  \/ /\ HasTool(client, <<"x">>)
     /\ SdkConnect(1)
  \/ \E s \in Sessions : SdkOpen(s)
  \/ \E s \in Sessions :
       ServerFrame(s, [type |-> "registered", clientId |-> client.clientId])
  \/ \E s \in Sessions, tool \in {<<"x">>, <<"u">>} :
       ServerFrame(s, [type |-> "tool_call", callId |-> Len(runs) + 1,
                       tool |-> tool, arguments |-> "a1"])
  \/ \E k \in 1..(NumSessions * MaxServerFrames), out \in HandlerOutcomes :
       SdkHandlerDone(k, out)
  \/ ReconnectTimer
  \/ \E s \in Sessions : SdkSocketClose(s)
  \/ SdkDisconnect

ToolSpec == SdkInit /\ [][ToolNext]_vars

\* BridgeSpec: the client connected to the broker.  The broker handles the
\* frames the client sent, in order; the client is given the frames of the
\* broker's outbox, in order; a side sees the close of a connection once
\* either side has closed it, the broker after the frames the client sent
\* before closing
BrokerTakes(s) ==
  /\ taken[s] < Len(clientSent[s])
  /\ LET m == clientSent[s][taken[s] + 1]
     IN  \/ /\ m.type = "register"
            /\ RegisterUpTo(MaxReplaceRegisters, s, m.clientId, m.tools)
         \/ /\ m.type = "unregister"
            /\ Unregister(s)
  /\ taken' = [taken EXCEPT ![s] = @ + 1]
  /\ UNCHANGED <<client, sock, promise, reconnects, clientSent, clientRecv,
                 runs, chatCalls, threw>>

BridgeNext ==
  \/ \E s \in Sessions : SdkConnect(s)
  \/ \E s \in Sessions :
       /\ sock[s] = "connecting"
       /\ Connect(s)
       /\ UNCHANGED sdkVars
  \/ \E s \in Sessions :
       /\ chan[s] # "none"
       /\ SdkOpen(s)
  \/ \E s \in Sessions : BrokerTakes(s)
  \/ \E s \in Sessions :
       /\ Len(clientRecv[s]) < Len(outbox[s])
       /\ SdkMessage(s, outbox[s][Len(clientRecv[s]) + 1])
  \/ \E s \in Sessions :
       /\ \/ chan[s] = "closing"
          \/ sock[s] \in {"closing", "closed"}
               /\ taken[s] = Len(clientSent[s])
       /\ Close(s)
       /\ UNCHANGED sdkVars
  \/ \E s \in Sessions :
       /\ chan[s] \in {"closing", "closed"} \/ sock[s] = "closing"
       /\ SdkSocketClose(s)
  \/ ReconnectTimer
  \/ \E name \in SdkToolNames :
       /\ ~HasTool(client, name)
       /\ SdkAddTool(name)
  \/ SdkDisconnect

BridgeSpec == SdkInit /\ [][BridgeNext]_vars

\* ----------------------------------------------------------- properties
Range(f) == { f[i] : i \in DOMAIN f }

\* the tool_call frames for call id c that the broker has sent on s
ToolCallFrames(box, s, c) ==
  { i \in 1..Len(box[s]) :
      box[s][i].type = "tool_call" /\ box[s][i].callId = c }

\* C1: every call id that callProviderTool put into the pending-call map is
\* completed at most once while it is pending and exactly once after it has
\* left the map (by the tool_result that found it or by its timer); its
\* timer is armed exactly while it is in the map, so whichever of the two
\* comes second finds nothing to do, and the awaiting caller is settled
\* exactly once.
C1_ExactlyOneCompletion ==
  /\ pendingCalls \subseteq 1..Len(calls)
  /\ timers = pendingCalls
  /\ \A c \in 1..Len(calls) :
       LET q == reqs[calls[c].req]
       IN  IF c \in pendingCalls
           THEN completions[c] = 0 /\ q.state = "awaiting" /\ q.settled = 0
           ELSE /\ completions[c] = 1
                /\ q.state = "done" /\ q.settled = 1
                /\ q.by \in {"result", "timer"}

\* C1 witness: one call resolved by a tool_result and another rejected by
\* its timer
C1_Witness ==
  \E c, d \in 1..Len(calls) :
    /\ reqs[calls[c].req].by = "result"
    /\ reqs[calls[d].req].by = "timer"

\* C4: a consumer call whose name splits into (p, t), with p registered on
\* an open channel, appends exactly one frame to p's channel and none to any
\* other: a tool_call with tool t, the call's arguments and a call id that
\* no earlier call had; a request completed by a tool_result frame returns
\* that frame's content and isError (no content: the default text).
C4_DispatchStep ==
  Len(reqs') = Len(reqs) + 1 =>
    LET q == reqs'[Len(reqs')]
        p == parseNamespacedTool(q.name)
    IN  (q.origin = "mcp" /\ p.ok /\ RegHas(p.clientId)
           /\ chan[RegGet(p.clientId).ws] = "open") =>
          LET target == RegGet(p.clientId).ws
              frame == [type |-> "tool_call", callId |-> q.callId,
                        tool |-> p.toolName,
                        arguments |-> IF q.args = "undefined" THEN "{}"
                                      ELSE q.args]
          IN  /\ q.state = "awaiting"
              /\ q.callId \notin 1..Len(calls)
              /\ \A s \in Sessions : ToolCallFrames(outbox, s, q.callId) = {}
              /\ outbox'[target] = Append(outbox[target], frame)
              /\ \A s \in Sessions \ {target} : outbox'[s] = outbox[s]

C4_PassThrough ==
  \A r \in 1..Len(reqs) :
    reqs[r].by = "result" =>
      /\ reqs[r].content = IF reqs[r].got.has THEN reqs[r].got.content
                           ELSE <<"No content returned">>
      /\ reqs[r].isError = (reqs[r].got.isError = "true")
      /\ ~reqs[r].thrown

C4_HappyPath == [][C4_DispatchStep]_vars /\ []C4_PassThrough

\* C4 witness: a call was delivered to its provider and the provider's
\* result with isError = true came back to the consumer
C4_Witness ==
  \E c \in 1..Len(calls) :
    /\ calls[c].delivered
    /\ reqs[calls[c].req].by = "result"
    /\ reqs[calls[c].req].isError
    /\ reqs[calls[c].req].content = <<"c2">>

\* C6: when the deadline timer of a delivered call fires, the consumer call
\* completes with isError = true and a text containing "timed out",
\* toolErrors grows by exactly 1 and the call id leaves the pending-call map.
C6_TimeoutStep ==
  \A c \in pendingCalls :
    LET r == calls[c].req
    IN  (calls[c].delivered /\ reqs'[r].by = "timer" /\ reqs[r].by = "none")
          => /\ reqs'[r].state = "done"
             /\ reqs'[r].isError
             /\ "\" timed out after " \in Range(reqs'[r].content)
             /\ stats'.toolErrors = stats.toolErrors + 1
             /\ stats'.toolCalls = stats.toolCalls
             /\ c \notin pendingCalls'

C6_ToolTimeout == [][C6_TimeoutStep]_vars

C6_Witness ==
  \E c \in 1..Len(calls) :
    /\ calls[c].delivered
    /\ reqs[calls[c].req].by = "timer"
    /\ stats.toolErrors >= 1

\* C7: under LiveSpec every call in the pending-call map eventually leaves
\* it, completed, whatever its provider does.
C7_EventuallyCompletes ==
  \A c \in 1..MaxRequests :
    (c \in pendingCalls) ~>
      (c \notin pendingCalls /\ c <= Len(calls) /\ completions[c] = 1)

\* C7 witness: a call completed by its timer after its provider's channel
\* was closed
C7_Witness ==
  \E c \in 1..Len(calls) :
    /\ completions[c] = 1
    /\ reqs[calls[c].req].by = "timer"
    /\ chan[calls[c].ws] = "closed"

\* C8: a step that changes a channel, the registry or a session's assigned
\* id (close, unregister, register with or without replacement) leaves the
\* pending-call map, the timers and the awaiting requests as they are and
\* sends no tool_call frame; a call leaves the map only by a tool_result or
\* its own timer; the tool_call frame of a call exists at most once, on the
\* channel it was dispatched to.
C8_SessionStep ==
  (chan' # chan \/ registry' # registry \/ assigned' # assigned
     \/ stats'.totalConnections # stats.totalConnections) =>
    /\ pendingCalls' = pendingCalls
    /\ timers' = timers
    /\ reqs' = reqs
    /\ completions' = completions
    /\ \A s \in Sessions, c \in 1..MaxRequests :
         ToolCallFrames(outbox', s, c) = ToolCallFrames(outbox, s, c)

C8_EndStep ==
  \A c \in pendingCalls \ pendingCalls' :
    /\ reqs[calls[c].req].by = "none"
    /\ reqs'[calls[c].req].by \in {"result", "timer"}

C8_NeverResent ==
  \A c \in 1..Len(calls), s \in Sessions :
    /\ Cardinality(ToolCallFrames(outbox, s, c)) <= 1
    /\ ToolCallFrames(outbox, s, c) # {} => s = calls[c].ws

C8_CloseLeavesPending ==
  [][C8_SessionStep /\ C8_EndStep]_vars /\ []C8_NeverResent

\* C8 witness: a call is still pending although its provider's channel is
\* closed and another session has registered the same id
C8_Witness ==
  \E c \in pendingCalls :
    /\ chan[calls[c].ws] = "closed"
    /\ RegHas(calls[c].clientId)
    /\ RegGet(calls[c].clientId).ws # calls[c].ws

\* C9: a consumer call on a name that splits into (id, x) with no registry
\* entry for id returns isError = true with the text
\* Error: Broker client "id" not connected, adds 1 to toolCalls and 1 to
\* toolErrors, and leaves the pending-call map, the timers and every channel
\* untouched.
C9_NotConnectedStep ==
  Len(reqs') = Len(reqs) + 1 =>
    LET q == reqs'[Len(reqs')]
        p == parseNamespacedTool(q.name)
    IN  (q.origin = "mcp" /\ p.ok /\ ~RegHas(p.clientId)) =>
          /\ q.state = "done"
          /\ q.isError
          /\ q.content = <<"Error: ", "Broker client \"">> \o p.clientId
                           \o <<"\" not connected">>
          /\ stats'.toolCalls = stats.toolCalls + 1
          /\ stats'.toolErrors = stats.toolErrors + 1
          /\ pendingCalls' = pendingCalls
          /\ timers' = timers
          /\ calls' = calls
          /\ outbox' = outbox

C9_NotConnected == [][C9_NotConnectedStep]_vars

C9_Witness ==
  \E r \in 1..Len(reqs) :
    /\ reqs[r].name = <<"b", "_", "_", "x">>
    /\ reqs[r].state = "done"
    /\ reqs[r].thrown
    /\ stats.toolErrors >= 1

\* C2 (as claimed; RegSpec): a session that registered an id held by another
\* session keeps the registry entry of that id, as the only entry of that
\* id, for as long as its channel is open and it has neither unregistered
\* nor been replaced itself, whatever happens on the other session.
C2_ReplacedKeepsEntry ==
  \A s \in Sessions : \A id \in tookOver[s] :
    chan[s] = "open" =>
      /\ RegHas(id)
      /\ RegGet(id).ws = s
      /\ Cardinality({ i \in 1..Len(registry) : registry[i].clientId = id })
           = 1

\* C3 (as claimed; RegSpec): the registry has an entry for id p exactly when
\* some session registered as p, has not since unregistered or been
\* replaced, and the close of its channel has not been processed.
C3_EntryIffRegistered ==
  /\ \A i \in 1..Len(registry) :
       \E s \in Sessions :
         registry[i].clientId \in live[s] /\ CanReceive(s)
  /\ \A s \in Sessions : \A id \in live[s] :
       CanReceive(s) => RegHas(id)

\* C5 (as claimed; RegSpec): every name ListTools returns is a built-in
\* name or splits at its first "__" into the id of a registry entry and a
\* tool that entry declares.
C5_ListedNamesResolve ==
  \A k \in 1..Len(ListTools) :
    LET n == ListTools[k]
        p == parseNamespacedTool(n)
    IN  \/ n \in Range(BUILTIN_TOOLS)
        \/ /\ p.ok
           /\ RegHas(p.clientId)
           /\ p.toolName \in Range(RegGet(p.clientId).tools)

\* C10 (as claimed; StatsSpec): toolCalls >= toolErrors and
\* chatRequests >= chatErrors in every reachable state.
C10_CallsBoundErrors ==
  /\ stats.toolCalls >= stats.toolErrors
  /\ stats.chatRequests >= stats.chatErrors

\* new is old after k appends to a buffer of capacity cap: the oldest
\* elements beyond cap are gone, the others keep their order, and the k new
\* elements are last and younger (by the ordinal at) than all of old
RingAppended(old, new, cap, k, at(_)) ==
  LET n == Len(old) + k
      gone == IF n > cap THEN n - cap ELSE 0
  IN  /\ Len(new) = n - gone
      /\ \A i \in 1..(Len(new) - k) : new[i] = old[i + gone]
      /\ \A i \in (Len(new) - k + 1)..Len(new) :
           \A j \in 1..Len(old) : at(new[i]) > at(old[j])

RingStep(old, new, cap, at(_)) ==
  \E k \in 0..2 : RingAppended(old, new, cap, k, at)

TimeOf(e) == e.time

TimestampOf(n) == n.timestamp

\* C11: the activity log never holds more than 200 entries, a per-provider
\* notification ring never more than 100 and the global ring never more
\* than 500; a step appends to the activity log or leaves it as it was, and
\* appends one element to the global ring and to the sender's ring for each
\* notification it accepts; an append to a full buffer discards exactly the
\* oldest element, keeps the new one last and keeps the order of the others
\* (a per-provider ring can also be deleted as a whole).
C11_Sizes ==
  /\ Len(activityLog) <= ACTIVITY_LOG_MAX
  /\ \A id \in DOMAIN clientNotifications :
       Len(clientNotifications[id]) <= NOTIFICATION_MAX_PER_CLIENT
  /\ Len(globalNotifications) <= NOTIFICATION_MAX_GLOBAL

C11_AppendStep ==
  LET accepted == stats'.notifications - stats.notifications
  IN  /\ RingStep(activityLog, activityLog', ACTIVITY_LOG_MAX, TimeOf)
      /\ RingAppended(globalNotifications, globalNotifications',
                      NOTIFICATION_MAX_GLOBAL, accepted, TimestampOf)
      /\ \A id \in DOMAIN clientNotifications' :
           \E k \in {0, accepted} :
             RingAppended(NotesGet(clientNotifications, id),
                          clientNotifications'[id],
                          NOTIFICATION_MAX_PER_CLIENT, k, TimestampOf)
      /\ accepted > 0 =>
           \E id \in DOMAIN clientNotifications' :
             RingAppended(NotesGet(clientNotifications, id),
                          clientNotifications'[id],
                          NOTIFICATION_MAX_PER_CLIENT, accepted, TimestampOf)

C11_RingBuffers == []C11_Sizes /\ [][C11_AppendStep]_vars

\* C11 witness: each of the three buffers is full and has discarded its
\* oldest element
C11_Witness ==
  /\ Len(activityLog) = ACTIVITY_LOG_MAX /\ activityLog[1].time > 1
  /\ Len(globalNotifications) = NOTIFICATION_MAX_GLOBAL
  /\ globalNotifications[1].timestamp > 1
  /\ \E id \in DOMAIN clientNotifications :
       /\ Len(clientNotifications[id]) = NOTIFICATION_MAX_PER_CLIENT
       /\ clientNotifications[id][1].timestamp > 1

\* C12 (as claimed; NoteSpec): a notification frame handled on a session
\* that never registered, or whose last register frame was followed by an
\* unregister frame, sends an error frame on that session and changes
\* nothing else: no ring, no counter, no activity entry, no
\* notification_ack.
C12_Step ==
  \A s \in Sessions, e \in NoteInputs :
    (phase[s] # "registered" /\ Notification(s, e)) =>
      /\ outbox' = Send(chan, outbox, s,
             [type |-> "error",
              message |-> <<"Must register before sending notifications">>])
      /\ UNCHANGED <<clientNotifications, globalNotifications, stats,
                     activityLog>>

C12_UnregisteredNotification == [][C12_Step]_vars

\* one error frame, and nothing else, was sent on the open channel of s
ErrorReply(s) ==
  /\ Len(outbox'[s]) = Len(outbox[s]) + 1
  /\ outbox'[s][Len(outbox'[s])].type = "error"
  /\ \A t \in Sessions \ {s} : outbox'[t] = outbox[t]

\* C13 (as claimed; StatsSpec): a chat_request or call_tool frame handled on
\* an open session that has not registered is answered with an error frame
\* on that session and not processed: no upstream chat call and no tool
\* request is started, and the counters, the activity log, the pending-call
\* map and the timers stay as they are.
C13_Step ==
  \A s \in Sessions :
    (phase[s] = "new" /\ chan[s] = "open"
       /\ \/ \E m \in ChatInputs :
               /\ m.requestId # "" /\ m.payload # "undefined"
               /\ ChatRequestFrame(s, m.requestId, m.payload)
          \/ \E given \in {<<>>, <<"k1">>}, m \in StatsCallInputs :
               CallToolFrame(s, given, TRUE, m.name, m.args))
    => /\ ErrorReply(s)
       /\ \A i \in 1..Len(chats') : i > Len(chats) => chats'[i].state = "refused"
       /\ \A r \in 1..Len(reqs') : r > Len(reqs) => reqs'[r].state = "refused"
       /\ UNCHANGED <<stats, activityLog, pendingCalls, timers, calls>>

C13_RegisterFirst == [][C13_Step]_vars

\* C14: a frame that is not JSON, or whose type is no known message type,
\* sends exactly one error frame ("Invalid JSON" or "Unknown message type:
\* ...") on the sender's open channel and leaves the registry, the
\* pending-call map, the timers, both notification rings, the activity
\* log, the counters, every assigned id and every channel as they are.
C14_Step ==
  \A s \in Sessions, m \in BadFrames :
    (chan[s] = "open" /\ BadFrame(s, m)) =>
      /\ ErrorReply(s)
      /\ outbox'[s][Len(outbox'[s])].message =
           (IF m.json THEN <<"Unknown message type: ", m.type>>
            ELSE <<"Invalid JSON">>)
      /\ UNCHANGED <<registry, pendingCalls, timers, clientNotifications,
                     globalNotifications, activityLog, stats, assigned, chan,
                     phase, crashed>>

C15_RegisterDone(s) ==
  /\ Len(assigned'[s]) > 0
  /\ \E i \in 1..Len(registry') :
       registry'[i].clientId = assigned'[s] /\ registry'[i].ws = s
  /\ Len(activityLog') > 0
  /\ activityLog'[Len(activityLog')].type = "connect"
  /\ chan'[s] = "open" =>
       /\ Len(outbox'[s]) = Len(outbox[s]) + 1
       /\ outbox'[s][Len(outbox'[s])].type = "registered"

C15_Refused(s) ==
  /\ chan[s] = "open" => ErrorReply(s)
  /\ UNCHANGED <<registry, pendingCalls, timers, clientNotifications,
                 globalNotifications, activityLog, stats, assigned, chan>>

C15_Step ==
  \A s \in Sessions :
    /\ NullFrame(s) => (~crashed' /\ C15_Refused(s))
    /\ \A m \in FrameRegisterInputs :
         Register(s, m.clientId, m.tools) =>
           (~crashed' /\ (C15_RegisterDone(s) \/ C15_Refused(s)))

C15_NoUncaughtException == [][C15_Step]_vars

\* C16: a register whose id already has an entry is one step in which the
\* old entry's channel is closed, the old entry is gone and the only entry
\* of the id is the new session's, the activity log gains a disconnect
\* entry and after it a connect entry, and the registered frame is sent on
\* the channels as the close left them (a session that replaces itself is
\* sent nothing); no pending call, timer, request, notification or other
\* channel changes in that step.
C16_Step ==
  \A s \in Sessions, m \in CallRegisterInputs :
    LET id == AssignClientId(m.clientId, rand)
    IN  (RegHas(id)
           /\ RegisterUpTo(MaxReplaceRegisters, s, m.clientId, m.tools)) =>
          LET old == RegGet(id).ws
              n == Len(activityLog)
              frame == [type |-> "registered", clientId |-> id,
                        epoch |-> stats'.totalConnections]
          IN  /\ chan'[old] \in {"closing", "closed"}
              /\ \A t \in Sessions \ {old} : chan'[t] = chan[t]
              /\ Cardinality({ i \in 1..Len(registry') :
                                 registry'[i].clientId = id }) = 1
              /\ \E i \in 1..Len(registry') :
                   /\ registry'[i].clientId = id
                   /\ registry'[i].ws = s
                   /\ registry'[i].epoch = stats'.totalConnections
              /\ Len(activityLog') = n + 2
              /\ SubSeq(activityLog', 1, n) = activityLog
              /\ activityLog'[n + 1].type = "disconnect"
              /\ activityLog'[n + 1].clientId = id
              /\ activityLog'[n + 2].type = "connect"
              /\ activityLog'[n + 2].clientId = id
              /\ outbox'[s] = IF chan'[s] = "open"
                              THEN Append(outbox[s], frame) ELSE outbox[s]
              /\ \A t \in Sessions \ {s} : outbox'[t] = outbox[t]
              /\ UNCHANGED <<pendingCalls, timers, calls, reqs, completions,
                             chats, clientNotifications, globalNotifications>>

C16_ReplacementOrder == [][C16_Step]_vars

\* C16 witness: a session has replaced another session, whose channel is
\* closing, and then itself; it was sent the registered frame of its first
\* registration only, and the log holds the two replacements in order
C16_Witness ==
  \E s, t \in Sessions :
    /\ s # t /\ chan[t] = "closing" /\ chan[s] = "closing"
    /\ RegHas(assigned[s]) /\ RegGet(assigned[s]).ws = s
    /\ RegGet(assigned[s]).epoch = 3
    /\ Len(outbox[s]) = 1 /\ outbox[s][1].epoch = 2
    /\ Len(activityLog) = 5
    /\ [i \in 1..5 |-> activityLog[i].type] =
         <<"connect", "disconnect", "connect", "disconnect", "connect">>

\* C17: on every channel, each tool_call frame is preceded by the
\* registered frame of the registration that installed the registry entry
\* the call was dispatched through.
C17_RegisteredFirst ==
  \A c \in 1..Len(calls), s \in Sessions :
    \A j \in ToolCallFrames(outbox, s, c) :
      \E i \in 1..(j - 1) :
        /\ outbox[s][i].type = "registered"
        /\ outbox[s][i].epoch = calls[c].epoch
        /\ outbox[s][i].clientId = calls[c].clientId

\* C17 witness: a session that took the id over from another one has
\* received its registered frame and then the tool_call frames of a
\* consumer call and of a call_tool frame
C17_Witness ==
  \E c, d \in 1..Len(calls), s \in Sessions :
    /\ calls[c].epoch = 2 /\ calls[d].epoch = 2
    /\ reqs[calls[c].req].origin = "mcp"
    /\ reqs[calls[d].req].origin = "ws"
    /\ ToolCallFrames(outbox, s, c) # {}
    /\ ToolCallFrames(outbox, s, d) # {}

\* the disconnect entries of provider id in the activity log
Disconnects(log, id) ==
  Cardinality({ i \in 1..Len(log) :
                  log[i].type = "disconnect" /\ log[i].clientId = id })

\* C18 (as claimed; NoteSpec): when a session that holds the registry entry
\* of its id closes, unregisters or is replaced by a register of the same
\* id, that step removes the entry it held, deletes the per-provider
\* notification ring of the id and appends exactly one disconnect entry.
C18_Step ==
  \A s \in Sessions :
    LET id == assigned[s]
    IN  (/\ Len(id) > 0 /\ RegHas(id) /\ RegGet(id).ws = s
         /\ \/ Close(s)
            \/ Unregister(s)
            \/ \E t \in Sessions, m \in CallRegisterInputs :
                 /\ AssignClientId(m.clientId, rand) = id
                 /\ Register(t, m.clientId, m.tools))
        => /\ \A i \in 1..Len(registry') : registry'[i] # RegGet(id)
           /\ ~NotesHas(clientNotifications', id)
           /\ Disconnects(activityLog', id) = Disconnects(activityLog, id) + 1

C18_TerminalCleansUp == [][C18_Step]_vars

\* C19 (as claimed; ReplaceSpec): once a session that registered has been
\* handled one unregister frame, every further unregister frame on it (with
\* no register frame of its own in between) leaves the registry, the
\* activity log and the counters as they are and sends nothing.
C19_Step ==
  \A s \in Sessions :
    (phase[s] = "unregistered" /\ Unregister(s)) =>
      UNCHANGED <<registry, activityLog, stats, outbox>>

C19_UnregisterIdempotent == [][C19_Step]_vars

\* C20: a tool_result frame whose call id is not in the pending-call map
\* (never issued, completed by an earlier result, or timed out) sends no
\* frame, settles no request and leaves the pending-call map, the timers,
\* the counters and the activity log as they are.
C20_Step ==
  \A s \in Sessions, c \in 1..MaxRequests, m \in ResultInputs :
    (c \notin pendingCalls /\ ToolResult(s, c, m)) =>
      UNCHANGED <<outbox, reqs, completions, pendingCalls, timers, stats,
                  activityLog, registry, chan>>

C20_UnknownResultDropped == [][C20_Step]_vars

\* C20 witness: a tool_result frame was dropped while one call had timed
\* out and another one was still pending
C20_Witness ==
  /\ dropped > 0
  /\ pendingCalls # {}
  /\ \E c \in 1..Len(calls) : reqs[calls[c].req].by = "timer"

\* the frames written to observer o in this step
Written(o) == SubSeq(sseInbox'[o], Len(sseInbox[o]) + 1, Len(sseInbox'[o]))

\* buf after one more element, the oldest dropped when cap is exceeded
Pushed(buf, cap, n) ==
  (IF Len(buf) = cap THEN Tail(buf) ELSE buf) \o <<n>>

\* C21: a notification frame with event e from a session registered as p
\* appends the notification {clientId: p, event: e} to p's ring and to the
\* global ring, adds 1 to the notifications counter, writes exactly one
\* notification frame (that notification) to every subscribed observer and
\* none to any other, and sends one notification_ack on the session's open
\* channel; get_notifications with clientId p then returns a list whose
\* last element is that notification, and each get_notifications call with
\* a clientId returns a text that ends with the last element of that ring.
C21_StoreStep ==
  \A s \in Sessions, e \in NoteInputs :
    (Notification(s, e) /\ assigned[s] # <<>>) =>
      LET p == assigned[s]
          n == globalNotifications'[Len(globalNotifications')]
          got == getNotifications(clientNotifications', globalNotifications',
                                  p, FALSE, 0)
      IN  /\ n.clientId = p /\ n.event = e
          /\ NotesGet(clientNotifications', p)
               = Pushed(NotesGet(clientNotifications, p),
                        NOTIFICATION_MAX_PER_CLIENT, n)
          /\ \A k \in DOMAIN clientNotifications' \ {p} :
               /\ k \in DOMAIN clientNotifications
               /\ clientNotifications'[k] = clientNotifications[k]
          /\ globalNotifications'
               = Pushed(globalNotifications, NOTIFICATION_MAX_GLOBAL, n)
          /\ stats'.notifications = stats.notifications + 1
          /\ \A o \in Observers :
               LET w == Written(o)
                   notes == { i \in 1..Len(w) : w[i].type = "notification" }
               IN  IF o \in sseClients
                   THEN /\ Cardinality(notes) = 1
                        /\ \A i \in notes : w[i] = NotificationFrame(n)
                   ELSE w = <<>>
          /\ outbox'[s] = IF chan[s] = "open"
                          THEN Append(outbox[s],
                                      [type |-> "notification_ack",
                                       timestamp |-> n.timestamp])
                          ELSE outbox[s]
          /\ \A t \in Sessions \ {s} : outbox'[t] = outbox[t]
          /\ got # <<>> /\ got[Len(got)] = n

C21_ReadStep ==
  \A a \in GetInputs :
    (ConsumerCallTool(GET_NOTIFICATIONS, a) /\ a.clientId # <<>>) =>
      LET ring == NotesGet(clientNotifications, a.clientId)
          text == reqs'[Len(reqs')].content
          last == StringifyNotifications(<<ring[Len(ring)]>>)
      IN  /\ reqs'[Len(reqs')].state = "done"
          /\ ~reqs'[Len(reqs')].isError
          /\ IF ring = <<>> THEN text = <<>>
             ELSE /\ Len(text) >= Len(last)
                  /\ SubSeq(text, Len(text) - Len(last) + 1, Len(text)) = last

C21_NotificationStored == [][C21_StoreStep /\ C21_ReadStep]_vars

\* C21 witness: two subscribed observers have each been written a
\* notification frame, the provider has its acknowledgement, and a consumer
\* has read provider a's ring back
C21_Witness ==
  /\ \A o \in Observers :
       /\ o \in sseClients
       /\ \E i \in 1..Len(sseInbox[o]) : sseInbox[o][i].type = "notification"
  /\ \E s \in Sessions :
       \E i \in 1..Len(outbox[s]) : outbox[s][i].type = "notification_ack"
  /\ \E r \in 1..Len(reqs) :
       /\ reqs[r].name = GET_NOTIFICATIONS
       /\ reqs[r].args.clientId = <<"a">>
       /\ reqs[r].content # <<>>

\* the frames of the given type and requestId sent on session s
ChatFrames(s, type, q) ==
  { i \in 1..Len(outbox[s]) :
      outbox[s][i].type = type /\ outbox[s][i].requestId = q }

\* the chat requests of session s with requestId q that are in a given state
ChatsIn(s, q, state) ==
  { i \in 1..Len(chats) :
      /\ chats[i].origin = "ws" /\ chats[i].ws = s
      /\ chats[i].requestId = q /\ chats[i].state = state }

\* log is old with one entry of the given type appended
LogAppended(old, log, type) ==
  /\ Len(log) = Len(old) + 1
  /\ SubSeq(log, 1, Len(old)) = old
  /\ log[Len(log)].type = type

\* C22: on every session and for every requestId, the chat_response frames
\* sent are as many as the chat requests with that id whose upstream call
\* succeeded and the chat_error frames as many as those that failed (never
\* more, and exactly as many while the channel is open), and none is sent
\* for a request still awaiting its upstream call; a failure adds exactly 1
\* to chat_errors and appends one chat_error activity, a success changes
\* neither.
C22_Answers ==
  \A s \in Sessions, q \in {"q1", "q2"} :
    LET ok == Cardinality(ChatsIn(s, q, "ok"))
        failed == Cardinality(ChatsIn(s, q, "failed"))
        responses == Cardinality(ChatFrames(s, "chat_response", q))
        errors == Cardinality(ChatFrames(s, "chat_error", q))
    IN  /\ responses <= ok /\ errors <= failed
        /\ chan[s] = "open" => responses = ok /\ errors = failed

C22_DoneStep ==
  \A i \in 1..Len(chats), ok \in BOOLEAN :
    (UpstreamDone(i, ok) /\ chats[i].origin = "ws") =>
      IF ok
      THEN UNCHANGED <<stats, activityLog>>
      ELSE /\ stats' = [stats EXCEPT !.chatErrors = @ + 1]
           /\ LogAppended(activityLog, activityLog', "chat_error")

C22_ThrowStep ==
  \A s \in Sessions :
    ChatRequestFrame(s, "q1", "bad") =>
      /\ stats'.chatErrors = stats.chatErrors + 1
      /\ Len(activityLog') = Len(activityLog) + 2
      /\ activityLog'[Len(activityLog')].type = "chat_error"
      /\ activityLog'[Len(activityLog') - 1].type = "chat"

C22_OneAnswer ==
  []C22_Answers /\ [][C22_DoneStep /\ C22_ThrowStep]_vars

\* C22 witness: one session has been sent a chat_response and a chat_error
\* for two requests, one whose upstream call succeeded and one whose
\* upstream call failed
C22_Witness ==
  \E s \in Sessions :
    /\ chan[s] = "open"
    /\ \E i, j \in 1..Len(outbox[s]) :
         /\ outbox[s][i].type = "chat_response"
         /\ outbox[s][j].type = "chat_error"
    /\ \E i, j \in 1..Len(chats) :
         /\ chats[i].ws = s /\ chats[i].state = "ok"
         /\ chats[j].ws = s /\ chats[j].state = "failed"
         /\ chats[j].requestId = chats[i].requestId
    /\ stats.chatErrors = 1

\* C23 (as claimed; ChatLiveSpec): every accepted chat_request is
\* eventually answered with chat_response or chat_error, through a deadline
\* of its own, even if the upstream endpoint never responds.
C23_ChatDeadline ==
  \A i \in 1..MaxRequests :
    (i <= Len(chats) /\ chats[i].origin = "ws" /\ chats[i].state = "upstream")
      ~> (i <= Len(chats) /\ chats[i].state \in {"ok", "failed"})

\* the call_tool_result frames with call id k sent on session s
ResultFrames(s, k) ==
  { i \in 1..Len(outbox[s]) :
      outbox[s][i].type = "call_tool_result" /\ outbox[s][i].callId = k }

\* the call_tool frames of session s with call id k that have been answered
Answered(s, k) ==
  { r \in 1..Len(reqs) :
      /\ reqs[r].origin = "ws" /\ reqs[r].ws = s /\ reqs[r].wsCallId = k
      /\ reqs[r].state \in {"done", "refused"} }

\* what routeToolCall and the handler's catch make of request q
RoutedResult(q) ==
  IF q.state = "refused"
  THEN [content |-> <<"tool name is required">>, isError |-> TRUE]
  ELSE IF q.by = "result"
  THEN [content |-> IF q.got.has THEN q.got.content
                    ELSE <<"No content returned">>,
        isError |-> q.got.isError = "true"]
  ELSE IF q.by = "timer"
  THEN [content |-> <<"Error: ">> \o TimeoutMsg(<<"x">>, <<"a">>),
        isError |-> TRUE]
  ELSE IF q.name = LIST_BROKER_CLIENTS
  THEN [content |-> q.content, isError |-> FALSE]
  ELSE IF q.name = GET_NOTIFICATIONS
  THEN [content |-> q.content, isError |-> FALSE]
  ELSE IF q.name = <<"n", "o">>
  THEN [content |-> <<"Unknown tool: ", "n", "o">>, isError |-> TRUE]
  ELSE [content |-> <<"Error: ">>
                    \o NotConnectedMsg(parseNamespacedTool(q.name).clientId),
        isError |-> TRUE]

\* C24: on every session and for every call id, the call_tool_result frames
\* sent are never more than the call_tool frames with that id that have
\* been routed to their end, and exactly as many while the channel is open
\* (a request without a call id is answered under a generated one, a
\* request still in flight has no answer yet); each frame carries the
\* content and the isError flag of the router's result for the request's
\* name: the tool_result of the provider, the timeout, "not connected",
\* "Unknown tool", or the built-in's result; and every call_tool frame is
\* eventually routed to its end.
C24_Frames ==
  \A s \in Sessions :
    /\ \A r \in 1..Len(reqs) :
         (reqs[r].origin = "ws" /\ reqs[r].ws = s) =>
           LET k == reqs[r].wsCallId
           IN  /\ k # <<>>
               /\ Cardinality(ResultFrames(s, k)) <= Cardinality(Answered(s, k))
               /\ chan[s] = "open" =>
                    Cardinality(ResultFrames(s, k))
                      = Cardinality(Answered(s, k))
    /\ \A i \in 1..Len(outbox[s]) :
         outbox[s][i].type = "call_tool_result" =>
           \E r \in Answered(s, outbox[s][i].callId) :
             /\ outbox[s][i].content = RoutedResult(reqs[r]).content
             /\ outbox[s][i].isError = RoutedResult(reqs[r]).isError

C24_Eventually ==
  \A r \in 1..MaxRequests :
    (r <= Len(reqs) /\ reqs[r].origin = "ws")
      ~> (r <= Len(reqs) /\ reqs[r].state \in {"done", "refused"})

C25_Step ==
  \A m \in RouteInputs :
    (/\ ConsumerCallTool(m.name, m.args)
     /\ \/ RouteTarget(m.name).kind = "unknown"
        \/ RouteTarget(m.name).kind = "provider"
             /\ RouteTarget(m.name).wrap = "none"
             /\ ~RegHas(RouteTarget(m.name).clientId))
    => /\ reqs'[Len(reqs')].state = "done"
       /\ reqs'[Len(reqs')].isError
       /\ activityLog'[Len(activityLog')].type = "tool_error"

C25_RoutingFailureLogged == [][C25_Step]_vars

\* C26 (as claimed; RouteSpec): every consumer CallTool that has returned
\* has a content and an isError flag, and every error the broker itself
\* produced (not the provider's own result) has isError = true and the one
\* text "Error: <message>".
C26_ErrorsWellFormed ==
  \A r \in 1..Len(reqs) :
    (reqs[r].origin = "mcp" /\ reqs[r].state = "done") =>
      /\ reqs[r].isError \in BOOLEAN
      /\ (reqs[r].isError /\ reqs[r].by # "result") =>
           /\ reqs[r].content # <<>>
           /\ Head(reqs[r].content) = "Error: "

\* the frames this step produces, in the order it produces them: one
\* activity frame per entry it appends to the activity log, then a state
\* frame if it changes the registry, then a notification frame if it stores
\* a notification
Produced ==
  LET new == SubSeq(activityLog', Len(activityLog) + 1, Len(activityLog'))
  IN  [i \in 1..Len(new) |-> [type |-> "activity", entry |-> new[i]]]
      \o (IF registry' # registry
          THEN <<StateFrame(registry', stats')>> ELSE <<>>)
      \o (IF stats'.notifications > stats.notifications
          THEN <<NotificationFrame(
                   globalNotifications'[Len(globalNotifications')])>>
          ELSE <<>>)

\* C27: in every step, an observer that is subscribed is written exactly
\* the frames the step produces, once each and in the order of production
\* (activity frames in the order of the entries appended to the activity
\* log); an observer that subscribes in the step is written one frame
\* first, the state snapshot of the registry as it is then; any other
\* observer is written nothing, one that has left never returns to the
\* observer set, and no frame already written changes.
C27_Step ==
  \A o \in Observers :
    /\ Len(sseInbox'[o]) >= Len(sseInbox[o])
    /\ SubSeq(sseInbox'[o], 1, Len(sseInbox[o])) = sseInbox[o]
    /\ IF o \in sseClients
       THEN Written(o) = Produced
       ELSE IF o \in sseClients'
       THEN /\ sseInbox[o] = <<>>
            /\ Written(o) = <<StateFrame(registry, stats)>>
            /\ Produced = <<>>
       ELSE Written(o) = <<>>

C27_ObserverStream == [][C27_Step]_vars

\* C27 witness: an observer that subscribed after the provider registered
\* has received the snapshot with one client, then an activity, a state and
\* a notification frame, and has left; the other observer is still
\* subscribed
C27_Witness ==
  \E o, k \in Observers :
    /\ o \notin sseClients /\ k \in sseClients
    /\ Len(sseInbox[o]) >= 4
    /\ sseInbox[o][1].type = "state"
    /\ sseInbox[o][1].connectedClients = 1
    /\ \E i, j, n \in 2..Len(sseInbox[o]) :
         /\ sseInbox[o][i].type = "activity"
         /\ sseInbox[o][j].type = "state"
         /\ sseInbox[o][n].type = "notification"
    /\ Len(activityLog) > Len(sseInbox[o])

\* the tools of the registry, as (entry, position in the entry's tools)
ListedPairs ==
  { e \in (1..Len(registry)) \X (1..2) : e[2] <= Len(registry[e[1]].tools) }

\* C28: ListTools returns the built-in descriptors in declaration order,
\* then the tools of the registry entries, the entries in the order of
\* their latest registration (a register frame puts its id last) and each
\* entry's tools in declared order, named "<id>__<name>" and described
\* "[<id>] <description>"; their number is the number of built-ins plus the
\* tool counts of all entries.
C28_Listed ==
  LET nb == Len(BUILTIN_TOOLS)
  IN  /\ \A i \in 1..Len(registry) : Len(registry[i].tools) <= 2
      /\ Len(ListedTools) = nb + Cardinality(ListedPairs)
      /\ \A i \in 1..nb : ListedTools[i].name = BUILTIN_TOOLS[i]
      /\ \A i, j \in 1..Len(registry) :
           i < j => registry[i].epoch < registry[j].epoch
      /\ \A e \in ListedPairs :
           LET entry == registry[e[1]]
               before == Cardinality({ f \in ListedPairs : f[1] < e[1] })
               d == ListedTools[nb + before + e[2]]
               text == DeclaredDescription(entry.tools[e[2]])
           IN  /\ d.name = entry.clientId \o <<"_", "_">> \o entry.tools[e[2]]
               /\ d.description
                    = <<"[">> \o entry.clientId
                      \o <<"] ", IF text = "undefined" THEN "" ELSE text>>

C28_RegisterStep ==
  \A s \in Sessions, m \in ListRegisterInputs :
    RegisterUpTo(MaxReplaceRegisters, s, m.clientId, m.tools) =>
      /\ registry' # <<>>
      /\ registry'[Len(registry')].clientId = assigned'[s]
      /\ registry'[Len(registry')].tools = m.tools
      /\ m.tools # <<>> =>
           ListedTools'[Len(ListedTools')]
             = ListedTool(assigned'[s], m.tools[Len(m.tools)])

C28_ListTools == []C28_Listed /\ [][C28_RegisterStep]_vars

\* C28 witness: two entries are listed, the first with two tools, and the
\* second is an id that was registered first, before the other id, and
\* registered again
C28_Witness ==
  /\ Len(registry) = 2
  /\ registry[1].epoch = 2 /\ registry[2].epoch = 3
  /\ Len(registry[1].tools) = 2 /\ registry[2].tools # <<>>
  /\ \E s \in Sessions : registry[2].clientId \in tookOver[s]
  /\ Len(ListedTools) = Len(BUILTIN_TOOLS) + 3

HexDigits ==
  {"0", "1", "2", "3", "4", "5", "6", "7", "8", "9",
   "a", "b", "c", "d", "e", "f"}

\* C29: for every register frame, the id the session is assigned is the key
\* of the entry made for it and the clientId of the registered frame sent
\* to it; it has only characters of [A-Za-z0-9_-]; for a given clientId it
\* has the same length, keeps every valid character and has "_" for every
\* other, and sanitizing it again changes nothing; for a missing clientId
\* it is "rc_" followed by 8 hex digits.
C29_Step ==
  \A s \in Sessions, m \in IdInputs :
    Register(s, m.clientId, m.tools) =>
      LET raw == m.clientId
          id == assigned'[s]
          box == outbox'[s]
      IN  /\ \E i \in 1..Len(registry') :
               registry'[i].clientId = id /\ registry'[i].ws = s
          /\ box # outbox[s] =>
               /\ box[Len(box)].type = "registered"
               /\ box[Len(box)].clientId = id
          /\ (chan[s] = "open" /\ id \notin live[s]) => box # outbox[s]
          /\ \A i \in 1..Len(id) : id[i] \in AllowedChars
          /\ Sanitize(id) = id
          /\ IF raw # <<>>
             THEN /\ Len(id) = Len(raw)
                  /\ \A i \in 1..Len(raw) :
                       id[i] = IF raw[i] \in AllowedChars THEN raw[i] ELSE "_"
             ELSE /\ Len(id) = 11
                  /\ SubSeq(id, 1, 3) = <<"r", "c", "_">>
                  /\ \A i \in 4..11 : id[i] \in HexDigits

C29_AssignedId == [][C29_Step]_vars

\* C29 witness: one session was registered under a sanitized id that
\* differs from the clientId it gave, another under a generated id
C29_Witness ==
  \E s, t \in Sessions :
    /\ assigned[s] = <<"_", "_", "a">>
    /\ Len(assigned[t]) = 11
    /\ \E i \in 1..Len(outbox[s]) :
         outbox[s][i].type = "registered"
           /\ outbox[s][i].clientId = <<"_", "_", "a">>
    /\ RegHas(assigned[s]) /\ RegHas(assigned[t])

\* the last n elements of a, all of a when it has fewer
LastN(a, n) ==
  SubSeq(a, Len(a) - (IF n < Len(a) THEN n ELSE Len(a)) + 1, Len(a))

\* number of notifications in the text of a get_notifications result
Elements(text) == Cardinality({i \in 1..Len(text) : text[i] = "{"})

\* C30: get_notifications with limit N (50 when omitted) answers with the
\* last N notifications of the ring it reads, in arrival order, or all of
\* them when fewer are stored, so with at most N elements; the ring is the
\* provider's when a clientId is given (empty when the provider has none)
\* and the global ring otherwise.
C30_Step ==
  \A a \in LimitInputs :
    ConsumerCallTool(GET_NOTIFICATIONS, a) =>
      LET ring == IF a.clientId # <<>>
                  THEN NotesGet(clientNotifications, a.clientId)
                  ELSE globalNotifications
          N == IF a.hasLimit THEN a.limit ELSE 50
          text == reqs'[Len(reqs')].content
      IN  /\ reqs'[Len(reqs')].state = "done"
          /\ ~reqs'[Len(reqs')].isError
          /\ text = StringifyNotifications(LastN(ring, N))
          /\ Elements(text) <= N

C30_LastN == [][C30_Step]_vars

\* C35: a pending call whose tool_call frame went to one provider's channel
\* is completed only by a tool_result frame arriving on that channel: a
\* tool_result with its call id from another session, registered or not,
\* leaves the call pending and completes nothing.
C35_Step ==
  \A s \in Sessions, c \in 1..MaxRequests, m \in ResultInputs :
    (ToolResult(s, c, m) /\ c \in pendingCalls /\ calls[c].ws # s) =>
      /\ c \in pendingCalls'
      /\ completions'[c] = completions[c]
      /\ reqs'[calls[c].req].state = "awaiting"

C35_OnlyOwnChannel == [][C35_Step]_vars

\* C36: an unregister frame removes only the entry its own session
\* installed: when the session's id is held by the entry of another session
\* that replaced it, the unregister leaves the registry as it is and records
\* no disconnect activity.
C36_Step ==
  \A s \in Sessions :
    (/\ Unregister(s)
     /\ assigned[s] # <<>>
     /\ RegHas(assigned[s])
     /\ RegGet(assigned[s]).ws # s) =>
      /\ registry' = registry
      /\ activityLog' = activityLog

C36_UnregisterOwnEntry == [][C36_Step]_vars

\* the positions of the state frames written to observer o
StateFrames(o) ==
  { i \in 1..Len(sseInbox[o]) : sseInbox[o][i].type = "state" }

\* the registry as a state frame lists it: ids with their tool lists
ClientList ==
  [i \in 1..Len(registry) |->
     [clientId |-> registry[i].clientId, tools |-> registry[i].tools]]

\* C37: between handler runs of the live process, the client list of the
\* last state frame written to a subscribed observer is the registry: its
\* ids, in registry order, with their tool lists.
C37_SnapshotCurrent ==
  ~crashed =>
    \A o \in sseClients :
      /\ StateFrames(o) # {}
      /\ LET last == CHOOSE i \in StateFrames(o) :
                       \A j \in StateFrames(o) : j <= i
         IN  /\ sseInbox[o][last].clients = ClientList
             /\ sseInbox[o][last].connectedClients = Len(registry)

\* C37 witness: an observer that subscribed to an empty registry has since
\* been written the state frames of a registration, a replacement by the
\* other session, an unregister and a close
C37_Witness ==
  \E o \in sseClients :
    /\ ~crashed
    /\ sseInbox[o][1].type = "state"
    /\ sseInbox[o][1].connectedClients = 0
    /\ Cardinality(StateFrames(o)) >= 4
    /\ \E s \in Sessions : chan[s] = "closed"
    /\ \E s \in Sessions : phase[s] = "unregistered"
    /\ \E s \in Sessions : tookOver[s] # {}

\* C38: the close of the channel of a session that holds registrations
\* leaves the global ring as it is, leaves the ring of every id the session
\* does not hold as it is, and empties the ring of every id it holds: read
\* back, the global list is the one before the close and the list of each
\* of its ids is empty.
C38_Step ==
  \A s \in Sessions :
    (Close(s) /\ live[s] # {}) =>
      /\ globalNotifications' = globalNotifications
      /\ getNotifications(clientNotifications', globalNotifications', <<>>,
                          FALSE, 0)
           = getNotifications(clientNotifications, globalNotifications, <<>>,
                              FALSE, 0)
      /\ \A m \in ClearInputs :
           LET after == getNotifications(clientNotifications',
                          globalNotifications', m.clientId, FALSE, 0)
               before == getNotifications(clientNotifications,
                           globalNotifications, m.clientId, FALSE, 0)
           IN  IF m.clientId \in live[s] THEN after = <<>>
               ELSE after = before

C38_CloseClearsOwnRing == [][C38_Step]_vars

\* C39: when a session registers while another open session holds an entry
\* it registered under a different clientId string, the two have distinct
\* registry entries afterwards and the other session's channel is still
\* open, also when the two strings differ only in characters outside
\* [a-zA-Z0-9_-].
C39_Step ==
  \A s \in Sessions : \A raw \in PairInputs(s) :
    RegisterUpTo(MaxReplaceRegisters, s, raw, << <<"x">> >>) =>
      \A t \in Sessions \ {s} :
        (chan[t] = "open" /\ live[t] # {}) =>
          /\ chan'[t] = "open"
          /\ RegHas(assigned[s])' /\ RegGet(assigned[s])'.ws = s
          /\ \A id \in live[t] :
               /\ id # assigned'[s]
               /\ RegHas(id)' /\ RegGet(id)'.ws = t

C39_DistinctEntries == [][C39_Step]_vars

\* whether the registry entry of clientId declares a tool named toolName
Declares(clientId, toolName) ==
  /\ RegHas(clientId)
  /\ \E i \in 1..Len(RegGet(clientId).tools) :
       RegGet(clientId).tools[i] = toolName

\* the tool_call frames the broker has sent, channel by channel
AllToolCalls(box) ==
  [s \in Sessions |->
     { i \in 1..Len(box[s]) : box[s][i].type = "tool_call" }]

\* C40: a request for p__t makes the router send a tool_call frame only if
\* the registry entry of p declares a tool named t; otherwise no frame is
\* sent to any provider and the request is answered at once with
\* isError = true.
C40_Step ==
  \A m \in DeclCallInputs :
    LET p == parseNamespacedTool(m.name)
        r == Len(reqs) + 1
    IN  (/\ \/ ConsumerCallTool(m.name, m.args)
            \/ CallToolFrame(NumSessions, <<"k1">>, TRUE, m.name, m.args)
         /\ Len(reqs') = r
         /\ ~Declares(p.clientId, p.toolName)) =>
          /\ AllToolCalls(outbox') = AllToolCalls(outbox)
          /\ calls' = calls
          /\ reqs'[r].state = "done"
          /\ reqs'[r].isError

C40_OnlyDeclaredTools == [][C40_Step]_vars

\* whether a registered frame has been received on the socket of session s
GotRegistered(s) ==
  \E i \in 1..Len(clientRecv[s]) : clientRecv[s][i].type = "registered"

\* C31: the promise of a connect() call is resolved only in the run that
\* receives a registered frame on the socket that call made, so a resolved
\* promise has such a frame behind it and no promise of a socket without
\* one is resolved; and when an error frame or a socket error arrives on
\* that socket while the client is not registered, the pending promise is
\* rejected.
C31_Step ==
  \A s \in Sessions :
    /\ (promise[s] # "resolved" /\ promise'[s] = "resolved") =>
         /\ Len(clientRecv'[s]) = Len(clientRecv[s]) + 1
         /\ clientRecv'[s][Len(clientRecv'[s])].type = "registered"
    /\ (/\ \/ SdkSocketError(s)
           \/ ServerFrame(s, [type |-> "error", message |-> "Invalid JSON"])
        /\ promise[s] = "pending"
        /\ ~client.registered) =>
         promise'[s] = "rejected"
    /\ promise[s] \in {"resolved", "rejected"} => promise'[s] = promise[s]

C31_ConnectPromise ==
  /\ [](\A s \in Sessions : promise[s] = "resolved" => GotRegistered(s))
  /\ [][C31_Step]_vars

\* C31 witness: the promise of one connect() call was rejected by an error
\* that arrived before any registered frame, and the promise of a later
\* call was resolved by the registered frame on its socket
C31_Witness ==
  \E s, t \in Sessions :
    /\ s < t
    /\ promise[s] = "rejected" /\ ~GotRegistered(s)
    /\ promise[t] = "resolved" /\ GotRegistered(t)
    /\ client.registered

\* C32: addTool on a registered client whose socket is open sends a
\* register frame with the added tool on that socket; when the broker
\* handles a register frame of a session that holds the entry of that id
\* with its channel open, the entry lists the tools of the frame
\* afterwards, it is still the session's, and the session's channel is
\* still open.
C32_Step ==
  /\ \A name \in SdkToolNames :
       (/\ SdkAddTool(name)
        /\ client.registered
        /\ client.ws # 0
        /\ sock[client.ws] = "open") =>
         LET out == clientSent'[client.ws]
         IN  /\ Len(out) = Len(clientSent[client.ws]) + 1
             /\ out[Len(out)].type = "register"
             /\ out[Len(out)].clientId = client.clientId
             /\ \E i \in 1..Len(out[Len(out)].tools) :
                  out[Len(out)].tools[i] = name
  /\ \A s \in Sessions :
       (/\ BrokerTakes(s)
        /\ clientSent[s][taken[s] + 1].type = "register"
        /\ chan[s] = "open"
        /\ RegHas(client.clientId)
        /\ RegGet(client.clientId).ws = s) =>
         /\ RegHas(client.clientId)'
         /\ RegGet(client.clientId)'.ws = s
         /\ RegGet(client.clientId)'.tools = clientSent[s][taken[s] + 1].tools
         /\ chan'[s] = "open"

C32_AddToolKeepsSession == [][C32_Step]_vars


\* the tool_result frames with call id callId among the frames the client
\* sent on socket s
ResultsOn(s, callId) ==
  { i \in 1..Len(clientSent[s]) :
      /\ clientSent[s][i].type = "tool_result"
      /\ clientSent[s][i].callId = callId }

ResultCount(callId) ==
  Cardinality(UNION { { <<s, i>> : i \in ResultsOn(s, callId) } :
                        s \in Sessions })

\* the tool_result frame that the outcome of invocation r calls for
ExpectedResult(r) ==
  IF r.out.kind = "unknown"
  THEN ToolResultFrame(r.callId,
         <<[type |-> "text", text |-> <<"Unknown tool: ">> \o r.tool]>>, TRUE)
  ELSE IF r.out.kind = "error"
  THEN ToolResultFrame(r.callId,
         <<[type |-> "text", text |-> <<"Error: ", r.out.text>>]>>, TRUE)
  ELSE ToolResultFrame(r.callId, Normalize(r.out), FALSE)

\* C33 as stated: every tool_call received while the client's channel is
\* open has, once its handling has finished, exactly one tool_result frame
\* with its call id among the frames the client sent, with the content and
\* isError that its outcome calls for.
C33_ExactlyOneResult ==
  \A k \in 1..Len(runs) :
    (runs[k].recvOpen /\ runs[k].state = "done") =>
      /\ ResultCount(runs[k].callId) = 1
      /\ \E s \in Sessions : \E i \in ResultsOn(s, runs[k].callId) :
           clientSent[s][i] = ExpectedResult(runs[k])

\* C33 amended: a tool_call has no tool_result before its handling has
\* finished and never more than one; it has exactly one, sent on the
\* client's current socket with the content and isError that its outcome
\* calls for, when that socket is open at the moment the handling
\* finishes, and none otherwise.  The outcome is "Unknown tool" exactly
\* when the tool is not registered locally.
C33_ToolResult ==
  \A k \in 1..Len(runs) :
    /\ runs[k].state = "running" => ResultCount(runs[k].callId) = 0
    /\ runs[k].state = "done" =>
         /\ ResultCount(runs[k].callId) = (IF runs[k].wasOpen THEN 1 ELSE 0)
         /\ runs[k].wasOpen =>
              \E i \in ResultsOn(runs[k].via, runs[k].callId) :
                clientSent[runs[k].via][i] = ExpectedResult(runs[k])
         /\ ~HasTool(client, runs[k].tool) => runs[k].out.kind = "unknown"
         /\ runs[k].tool = <<"u">> <=> runs[k].out.kind = "unknown"

C33_Witness ==
  \E k1, k2 \in 1..Len(runs) :
    /\ runs[k1].state = "done" /\ runs[k1].wasOpen
    /\ runs[k1].out.kind = "error"
    /\ ResultCount(runs[k1].callId) = 1
    /\ runs[k2].state = "done" /\ runs[k2].recvOpen /\ ~runs[k2].wasOpen
    /\ ResultCount(runs[k2].callId) = 0


\* C34: disconnect() rejects every pending chat request with
\* "Disconnected", empties the pending-chat map and sends unregister on
\* the client's socket exactly when it is open; and while the client is
\* closed, a step that is not a call of connect() creates no socket, arms
\* no reconnect timer and leaves the client closed, with autoReconnect on
\* and reconnect timers pending or not.
C34_Step ==
  /\ SdkDisconnect =>
       /\ \A i \in client.pendingChats :
            /\ chatCalls[i].state = "pending"
            /\ chatCalls'[i].state = "rejected"
            /\ chatCalls'[i].reason = "Disconnected"
            /\ ~chatCalls'[i].timer
       /\ client'.pendingChats = {}
       /\ client'.closed
       /\ clientSent' =
            IF client.ws # 0 /\ sock[client.ws] = "open"
            THEN [clientSent EXCEPT
                    ![client.ws] = Append(@, [type |-> "unregister"])]
            ELSE clientSent
  /\ (client.closed /\ \A s \in Sessions : ~SdkConnect(s)) =>
       /\ \A s \in Sessions : sock[s] = "none" => sock'[s] = "none"
       /\ reconnects' <= reconnects
       /\ client'.closed
       /\ client'.ws = 0

C34_Disconnect == [][C34_Step]_vars

C34_Witness ==
  /\ client.closed
  /\ client.autoReconnect
  /\ reconnects > 0
  /\ \E i \in 1..Len(chatCalls) : chatCalls[i].reason = "Disconnected"
  /\ \E s \in Sessions : \E i \in 1..Len(clientSent[s]) :
       clientSent[s][i].type = "unregister"

====
